---- MODULE Spec2Model ----
(***************************************************************************)
(* A model of jamespreed/scholar-crawler.                                  *)
(*                                                                         *)
(*   - src/graphs/graphs.py : Author, Document and the resolution Graph    *)
(*   - src/requests.py      : the request variants and their parsers       *)
(*   - src/graph.py         : AuthorGraph, the graph the crawler fills     *)
(*   - src/scholar_crawler/queue.py : ScholarQueue, the frontier           *)
(*                                                                         *)
(* Python strings that the code splits, compares or sorts (names, author   *)
(* ids) are sequences of one-character strings, ordered by code point.     *)
(* Strings that are only concatenated or tested for emptiness (titles,     *)
(* metadata fields) are TLA+ strings.                                      *)
(* md5 is an injective tag on its input: Md5(s) = <<"md5", s>>.  The       *)
(* truncation to 11 (or 16) hex digits is taken to be collision free.      *)
(* random.choices is a fresh value: the k-th placeholder id is "#" and     *)
(* the digits of k, different from every id drawn before.                  *)
(*                                                                         *)
(* Five specifications share the variables; each leaves the variables of   *)
(* the others at their initial values:                                     *)
(*   DocSpec   : Document(...) of graphs.py on combinations of fields      *)
(*   Spec      : sequences of Graph.add_author and Graph.add_document      *)
(*   CrawlSpec : ScholarQueue.search_authors and crawl on a small site;    *)
(*               the names, ids and titles of the site are TLA+ strings,   *)
(*               a page is the record of the fields the parsers select     *)
(*   MergeSpec : Author.merge of graphs.py on pairs of Authors             *)
(*   PoolSpec  : RequestQueue of requests.py, one caller and the threads   *)
(*               of its pool                                               *)
(***************************************************************************)
EXTENDS Integers, Sequences, FiniteSets, TLC

VARIABLES
    \* ---- Document fingerprint (graphs.py, Document) ----
    d_fields,       \* the keyword arguments of one Document(...) call
    d_result,       \* what the call gave: [called, err, hash]
    d_again,        \* what a second call with the same arguments gave
    d_other,        \* another Document(...) call: [called, fields, err, hash]
    \* ---- Graph (graphs.py) ----
    author_ids,     \* Graph.author_ids : author id -> Author record
    authors,        \* Graph.authors    : key -> set of author ids (defaultdict)
    documents,      \* Graph.documents  : fingerprint -> [doc, ids]
    rnd,            \* how many random ids were drawn so far
    g_last,         \* the last Graph call: its arguments and its outcome
    \* ---- ScholarQueue (queue.py), AuthorGraph (graph.py) ----
    max_hops,               \* ScholarQueue.max_hops
    max_author_search_page, \* ScholarQueue.max_author_search_page
    request_queue,          \* ScholarQueue.request_queue, the frontier
    active_request,         \* ScholarQueue.active_request
    active_response,        \* ScholarQueue.active_response
    heap,           \* the requests.Author objects; a reference is an index
    nodes,          \* AuthorGraph.nodes : author key -> [node, docs]
    edges,          \* AuthorGraph.edges : doc key -> [doc, authors]
    n_random,       \* how many random ids randomize_empty_id has drawn
    pc,             \* where crawl() is: idle, pop, fetch, process, or how it ended
    err,            \* the exception crawl() ended with
    steps,          \* the steps argument of the running crawl()
    crawl_i,        \* the loop counter i of crawl()
    url_list,       \* request.urls as evaluated by get_next's for statement
    url_ix,         \* how many of them have been taken
    site_down,      \* the URLs the transport fails on
    site_blocked,   \* the URLs answered with an anti-automation page
    searches,       \* how many times search_authors was called
    log,            \* what the crawl did since search_authors: appends, pops,
                    \* fetches and parses, in order
    \* ---- Author.merge (graphs.py) ----
    m_a, m_b,       \* two Author objects
    m_ab,           \* a.merge(b)
    m_ba,           \* b.merge(a)
    m_aa,           \* a.merge(a)
    m_abb,          \* a.merge(b).merge(b)
    m_upd,          \* a.update_to(b): [called, err, self, other] after it
    \* ---- RequestQueue (requests.py) ----
    q_pool_size,    \* RequestQueue._pool_size
    q_futures,      \* every future submitted to thread_pool, in the order of
                    \* submission: its request, URL, state and outcome, and
                    \* whether it is, or was, a key of self.futures
    q_workers,      \* the threads of thread_pool: the future each one runs
    q_pc,           \* where the calling thread is
    q_req,          \* the request that add_request is adding
    q_k,            \* how many of its URLs were submitted
    q_scan,         \* the keys of self.futures that status or
                    \* retrieve_completed iterates over
    q_ix,           \* how many of them were read
    q_count,        \* status: the RUNNING states counted so far
    q_completed,    \* retrieve_completed: the futures found done so far
    q_status,       \* what status returned last
    q_delivered,    \* what the calls of retrieve_completed returned
    q_err           \* the exception the last retrieve_completed raised

docVars   == <<d_fields, d_result, d_again, d_other>>
graphVars == <<author_ids, authors, documents, rnd, g_last>>
crawlVars == <<max_hops, max_author_search_page, request_queue, active_request,
               active_response, heap, nodes, edges, n_random, pc, err, steps,
               crawl_i, url_list, url_ix, site_down, site_blocked, searches, log>>
mergeVars == <<m_a, m_b, m_ab, m_ba, m_aa, m_abb, m_upd>>
poolVars  == <<q_pool_size, q_futures, q_workers, q_pc, q_req, q_k, q_scan,
               q_ix, q_count, q_completed, q_status, q_delivered, q_err>>
vars      == <<docVars, graphVars, crawlVars, mergeVars, poolVars>>

NoChars == << >>

----------------------------------------------------------------------------
(* Characters and strings                                                  *)

Ord(c) ==
    CASE c = " " -> 32  [] c = "#" -> 35  [] c = "0" -> 48  [] c = "1" -> 49
      [] c = "2" -> 50  [] c = "3" -> 51  [] c = "4" -> 52  [] c = "5" -> 53
      [] c = "6" -> 54  [] c = "7" -> 55  [] c = "8" -> 56  [] c = "9" -> 57
      [] c = "A" -> 65  [] c = "B" -> 66  [] c = "D" -> 68  [] c = "E" -> 69
      [] c = "J" -> 74  [] c = "Q" -> 81  [] c = "R" -> 82  [] c = "a" -> 97
      [] c = "d" -> 100 [] c = "e" -> 101 [] c = "h" -> 104 [] c = "j" -> 106
      [] c = "n" -> 110 [] c = "o" -> 111 [] c = "q" -> 113 [] c = "r" -> 114
      [] c = "b" -> 98  [] c = "|" -> 124 [] c = "É" -> 201 [] c = "é" -> 233
      [] c = "-" -> 45  [] c = "_" -> 95

\* str.lower(), one character
LowerChar(c) ==
    CASE c = "A" -> "a" [] c = "B" -> "b" [] c = "D" -> "d" [] c = "E" -> "e"
      [] c = "J" -> "j" [] c = "Q" -> "q" [] c = "R" -> "r" [] c = "É" -> "é"
      [] c = "N" -> "n" [] c = "Y" -> "y"
      [] OTHER -> c

Lower(s) == [i \in 1..Len(s) |-> LowerChar(s[i])]

\* s < t for Python strings: lexicographic by code point, a proper prefix first
StrLess(s, t) ==
    \E k \in 0..Len(s) :
        /\ k <= Len(t)
        /\ \A i \in 1..k : s[i] = t[i]
        /\ \/ k = Len(s) /\ k < Len(t)
           \/ k < Len(s) /\ k < Len(t) /\ Ord(s[k + 1]) < Ord(t[k + 1])

\* sorted(S) for a set of strings
RECURSIVE SortStrings(_)
SortStrings(S) ==
    IF S = {} THEN << >>
    ELSE LET m == CHOOSE x \in S : \A y \in S \ {x} : StrLess(x, y)
         IN  <<m>> \o SortStrings(S \ {m})

\* the first of two strings, whatever their order
FirstStr(a, b) == a

\* max([a, b]) for two strings: the first of the largest
MaxStr(a, b) == IF StrLess(a, b) THEN b ELSE a

\* the positions of character c in s
Positions(s, c) == {i \in 1..Len(s) : s[i] = c}

Max(S) == CHOOSE x \in S : \A y \in S : y <= x

ToSet(q) == {q[i] : i \in 1..Len(q)}

\* ''.join(parts) for a sequence of TLA+ strings
RECURSIVE Join(_)
Join(q) == IF q = << >> THEN "" ELSE Head(q) \o Join(Tail(q))

\* [x for x in q if x]
RECURSIVE NonEmpty(_)
NonEmpty(q) ==
    IF q = << >> THEN << >>
    ELSE IF Head(q) = "" THEN NonEmpty(Tail(q))
         ELSE <<Head(q)>> \o NonEmpty(Tail(q))

Md5(s) == <<"md5", s>>

----------------------------------------------------------------------------
(* graphs.py: shave_marks_latin                                            *)

\* NFD, drop the combining marks that follow a Latin letter, NFC: a Latin
\* letter with a diacritic becomes the letter, everything else stays.
ShaveChar(c) == CASE c = "é" -> "e" [] c = "É" -> "E" [] OTHER -> c

shave_marks_latin(txt) == [i \in 1..Len(txt) |-> ShaveChar(txt[i])]

----------------------------------------------------------------------------
(* graphs.py: class Author                                                 *)

\* Python's None, for a field that otherwise holds a string: no string is
\* this one-element sequence, whose element is not one character.
None == <<"None">>

RECURSIVE DigitsOf(_)
DigitsOf(n) ==
    LET d == <<"0", "1", "2", "3", "4", "5", "6", "7", "8", "9">>[(n % 10) + 1]
    IN  IF n < 10 THEN <<d>> ELSE DigitsOf(n \div 10) \o <<d>>

\* '#' + ''.join(random.choices(_chars, k=7)): the k-th draw, fresh
RandomId(k) == <<"#">> \o DigitsOf(k)

\* Author._make_id: x if x is truthy, else a random id
make_id(x, fresh) == IF x = None \/ x = NoChars THEN fresh ELSE x

\* f, l = name.lower().rsplit(' ', 1); self.filn = (f[0], l)
\*   no ' ' in name       -> one part, the unpacking raises ValueError
\*   the last ' ' is first -> f is empty, f[0] raises IndexError
filn_error(name) ==
    IF Positions(name, " ") = {} THEN "ValueError"
    ELSE IF Max(Positions(name, " ")) = 1 THEN "IndexError"
    ELSE ""

filn_of(name) ==
    LET low == Lower(name)
        p   == Max(Positions(name, " "))
    IN  <<low[1], SubSeq(low, p + 1, Len(low))>>

\* Author.__init__: [err, obj]; fresh is the id random.choices would draw
Author(name, author_id, parent_id, fresh) ==
    IF filn_error(name) # ""
    THEN [err |-> filn_error(name), obj |-> None]
    ELSE [err |-> "",
          obj |-> [name      |-> shave_marks_latin(name),
                   author_id |-> make_id(author_id, fresh),
                   parent_id |-> parent_id,
                   filn      |-> filn_of(name)]]

\* s.split(sep) for a one-character sep
RECURSIVE Split(_, _)
Split(s, sep) ==
    IF Positions(s, sep) = {} THEN <<s>>
    ELSE LET p == CHOOSE i \in Positions(s, sep) :
                      \A k \in Positions(s, sep) : i <= k
         IN  <<SubSeq(s, 1, p - 1)>> \o Split(SubSeq(s, p + 1, Len(s)), sep)

\* sep.join(q) for a sequence of strings
RECURSIVE JoinSep(_, _)
JoinSep(q, sep) ==
    IF q = << >> THEN NoChars
    ELSE IF Len(q) = 1 THEN q[1]
    ELSE q[1] \o <<sep>> \o JoinSep(Tail(q), sep)

\* sorted(q) for a list of strings, duplicates kept
RECURSIVE SortList(_)
SortList(q) ==
    IF q = << >> THEN << >>
    ELSE LET i == CHOOSE k \in 1..Len(q) :
                      \A m \in 1..Len(q) : ~StrLess(q[m], q[k])
         IN  <<q[i]>> \o SortList(SubSeq(q, 1, i - 1) \o SubSeq(q, i + 1, Len(q)))

\* A merge that keeps the parent ids of self and drops those of other
merge_keeps_own_parents(self, other) ==
    IF self.filn # other.filn THEN [err |-> "ValueError", obj |-> None]
    ELSE LET name == IF Len(self.name) >= Len(other.name)
                     THEN self.name ELSE other.name
             author_id == MaxStr(self.author_id, other.author_id)
             pid == IF self.parent_id = None \/ other.parent_id = None
                    THEN None
                    ELSE self.parent_id
         IN  Author(name, author_id, pid, NoChars)

\* Author.merge: [err, obj], a new Author built from the best of both
merge(self, other) ==
    IF self.filn # other.filn THEN [err |-> "ValueError", obj |-> None]
    ELSE LET name == IF Len(self.name) >= Len(other.name)
                     THEN self.name ELSE other.name
             author_id == MaxStr(self.author_id, other.author_id)
             pid == IF self.parent_id = None \/ other.parent_id = None
                    THEN None
                    ELSE JoinSep(SortList(Split(self.parent_id, "|")
                                          \o Split(other.parent_id, "|")), "|")
         IN  Author(name, author_id, pid, NoChars)

\* An update_to that does not compare the match keys
update_to_unchecked(self, other) ==
    [err |-> "",
     obj |-> [self EXCEPT !.name = other.name,
                          !.author_id = other.author_id,
                          !.parent_id = other.parent_id]]

\* Author.update_to: [err, obj], self made to mirror other (filn is kept)
update_to(self, other) ==
    IF self.filn # other.filn THEN [err |-> "ValueError", obj |-> self]
    ELSE [err |-> "",
          obj |-> [self EXCEPT !.name = other.name,
                               !.author_id = other.author_id,
                               !.parent_id = other.parent_id]]

\* a merge that was not called yet
NotMerged == [called |-> FALSE, err |-> "", obj |-> None]

\* an update_to that was not called yet
NotUpdated == [called |-> FALSE, err |-> "", self |-> None, other |-> None]

----------------------------------------------------------------------------
(* graphs.py: class Document                                               *)

\* Python's "a or b" on strings
Or(a, b) == IF a # "" THEN a ELSE b

\* A fingerprint that prefers the title to the metadata parts
make_hash_title_first(self) ==
    LET j == Or(self.journal, Or(self.conference, self.book))
        v == self.volume \o self.issue
        parts == NonEmpty(<<j, v, self.pages, self.publication_date,
                            self.publisher>>)
    IN  IF self.title # "" THEN [err |-> "", hash |-> Md5(self.title)]
        ELSE IF Len(parts) >= 4 THEN [err |-> "", hash |-> Md5(Join(parts))]
        ELSE IF self.book # "" THEN [err |-> "", hash |-> Md5(self.book)]
        ELSE [err |-> "TypeError", hash |-> Md5("")]

\* Document._make_hash: [err, hash].  The last branch keeps the md5 object
\* (no hexdigest()), and h[:11] on it raises TypeError.
make_hash(self) ==
    LET j == Or(self.journal, Or(self.conference, self.book))
        v == self.volume \o self.issue
        p == self.pages
        d == self.publication_date
        b == self.publisher
        parts == NonEmpty(<<j, v, p, d, b>>)
    IN  IF Len(parts) >= 4 THEN [err |-> "", hash |-> Md5(Join(parts))]
        ELSE IF self.title # "" THEN [err |-> "", hash |-> Md5(self.title)]
        ELSE IF self.book # "" THEN [err |-> "", hash |-> Md5(self.book)]
        ELSE [err |-> "TypeError", hash |-> Md5("")]

\* sorted(filter(lambda x: ' ' in x, set(authors)))
doc_authors(names) ==
    SortStrings({n \in ToSet(names) : Positions(n, " ") # {}})

\* Document.__init__: [err, doc]; the doc carries its fingerprint in hash
Document(kw) ==
    LET self == [kw EXCEPT !.authors = doc_authors(kw.authors)]
        h    == make_hash(self)
    IN  [err |-> h.err,
         doc |-> [title |-> self.title, parent_author |-> self.parent_author,
                  authors |-> self.authors, book |-> self.book,
                  hash |-> h.hash]]

----------------------------------------------------------------------------
(* graphs.py: class Graph                                                  *)
(* A graph value g is [author_ids, authors, documents, rnd].               *)

\* d[k] = v on a dict
Put(d, k, v) == [x \in DOMAIN d \cup {k} |-> IF x = k THEN v ELSE d[x]]

\* d[k] on a defaultdict(set): a missing key is created with an empty set
Touch(d, k) == IF k \in DOMAIN d THEN d ELSE Put(d, k, {})

\* Graph.__init__
EmptyGraph ==
    [author_ids |-> << >>, authors |-> << >>, documents |-> << >>, rnd |-> 0]

\* An add_author that starts the author's neighbour set anew
add_author_resets(g, a_dict) ==
    LET drawn == a_dict.author_id = None \/ a_dict.author_id = NoChars
        a == Author(a_dict.name, a_dict.author_id, None, RandomId(g.rnd + 1))
    IN  IF a.err # "" THEN [err |-> a.err, g |-> g]
        ELSE [err |-> "",
              g |-> [g EXCEPT
                  !.author_ids = Put(g.author_ids, a.obj.author_id, a.obj),
                  !.authors = Put(g.authors, a.obj.author_id, {}),
                  !.rnd = IF drawn THEN g.rnd + 1 ELSE g.rnd]]

\* Graph.add_author: [err, g]
add_author(g, a_dict) ==
    LET drawn == a_dict.author_id = None \/ a_dict.author_id = NoChars
        a == Author(a_dict.name, a_dict.author_id, None, RandomId(g.rnd + 1))
    IN  IF a.err # "" THEN [err |-> a.err, g |-> g]
        ELSE [err |-> "",
              g |-> [g EXCEPT
                  !.author_ids = Put(g.author_ids, a.obj.author_id, a.obj),
                  !.authors = Touch(g.authors, a.obj.author_id),
                  !.rnd = IF drawn THEN g.rnd + 1 ELSE g.rnd]]

\* The inner loop of deduplicate_coauthors, "for a_id in
\* all_parent_coauthor_ids", over the ids still to visit.
\* st is [err, author_ids, doc_coauthors]; dca was bound before the loop.
RECURSIVE scan_parent_coauthors(_, _, _, _, _)
scan_parent_coauthors(todo, ix, dca, new_doc, st) ==
    IF todo = << >> \/ st.err # "" THEN st
    ELSE IF Head(todo) \notin DOMAIN st.author_ids
    THEN [st EXCEPT !.err = "KeyError"]
    ELSE LET pca == st.author_ids[Head(todo)]
             m   == merge(dca, pca)
             st2 == IF dca.filn # pca.filn THEN st
                    ELSE IF new_doc
                    THEN [st EXCEPT !.doc_coauthors[ix] = pca]
                    ELSE [st EXCEPT
                        !.author_ids = Put(Put(st.author_ids, dca.author_id, m.obj),
                                           pca.author_id, m.obj),
                        !.doc_coauthors[ix] = m.obj]
         IN  scan_parent_coauthors(Tail(todo), ix, dca, new_doc, st2)

\* The outer loop, "for ix in reversed(range(len(doc_coauthors)))", from
\* index ix down to 1.
RECURSIVE dedup_from(_, _, _, _, _)
dedup_from(ix, parent, all_parent_coauthor_ids, new_doc, st) ==
    IF ix = 0 \/ st.err # "" THEN st
    ELSE LET dca == st.doc_coauthors[ix]
             popped == SubSeq(st.doc_coauthors, 1, ix - 1)
                       \o SubSeq(st.doc_coauthors, ix + 1, Len(st.doc_coauthors))
             st2 == IF parent.filn = dca.filn
                    THEN [st EXCEPT
                        !.doc_coauthors = popped,
                        !.author_ids = IF new_doc THEN st.author_ids
                                       ELSE Put(st.author_ids, dca.author_id, parent)]
                    ELSE scan_parent_coauthors(
                             SortStrings(all_parent_coauthor_ids), ix, dca, new_doc, st)
         IN  dedup_from(ix - 1, parent, all_parent_coauthor_ids, new_doc, st2)

\* A deduplicate_coauthors that leaves the list as it is: the coauthor that
\* is the parent stays in it.
deduplicate_keeps_parent(g, parent, doc_coauthors, new_doc) ==
    [err |-> "", author_ids |-> g.author_ids,
     authors |-> Touch(g.authors, parent.parent_id),
     doc_coauthors |-> doc_coauthors]

\* Graph.deduplicate_coauthors: [err, author_ids, authors, doc_coauthors].
\* The set it scans is self.authors[parent.parent_id].
deduplicate_coauthors(g, parent, doc_coauthors, new_doc) ==
    LET authors1 == Touch(g.authors, parent.parent_id)
        st == dedup_from(Len(doc_coauthors), parent, authors1[parent.parent_id],
                         new_doc,
                         [err |-> "", author_ids |-> g.author_ids,
                          doc_coauthors |-> doc_coauthors])
    IN  [err |-> st.err, author_ids |-> st.author_ids, authors |-> authors1,
         doc_coauthors |-> st.doc_coauthors]

\* [Author(name, None, parent_id) for name in doc.authors]: [err, objs]
new_coauthors(names, parent_id, drawn) ==
    LET made == [i \in 1..Len(names) |->
                    Author(names[i], None, parent_id, RandomId(drawn + i))]
    IN  IF \E i \in 1..Len(names) : made[i].err # ""
        THEN [err |-> made[CHOOSE i \in 1..Len(names) :
                               /\ made[i].err # ""
                               /\ \A k \in 1..(i - 1) : made[k].err = ""].err,
              objs |-> << >>]
        ELSE [err |-> "", objs |-> [i \in 1..Len(names) |-> made[i].obj]]

\* Graph.add_document from "parent_id = doc.parent_author" on: [err, g].
\* order is the order in which Python iterates the set self.documents[doc]
\* (used when doc is already there).
resolve_and_link(g, doc, order) ==
    LET parent_id == doc.parent_author
    IN  IF parent_id \notin DOMAIN g.author_ids
        THEN [err |-> "KeyError", g |-> g]
        ELSE
        LET parent  == g.author_ids[parent_id]
            NEW_DOC == doc.hash \notin DOMAIN g.documents
            created == new_coauthors(doc.authors, parent_id, g.rnd)
            found   == IF \E i \in 1..Len(order) : order[i] \notin DOMAIN g.author_ids
                       THEN [err |-> "KeyError", objs |-> << >>]
                       ELSE [err |-> "",
                             objs |-> [i \in 1..Len(order) |-> g.author_ids[order[i]]]]
            coauth  == IF NEW_DOC THEN created ELSE found
        IN  IF coauth.err # "" THEN [err |-> coauth.err, g |-> g]
            ELSE
            LET dd  == deduplicate_coauthors(g, parent, coauth.objs, NEW_DOC)
                doc_coauthor_ids == {dd.doc_coauthors[i].author_id :
                                        i \in 1..Len(dd.doc_coauthors)}
                authors1 == Touch(dd.authors, parent_id)
                authors2 == [authors1 EXCEPT ![parent_id] = @ \cup doc_coauthor_ids]
                key == IF NEW_DOC THEN doc ELSE g.documents[doc.hash].doc
            IN  IF dd.err # ""
                THEN [err |-> dd.err,
                      g |-> [g EXCEPT !.author_ids = dd.author_ids,
                                      !.authors = dd.authors]]
                ELSE [err |-> "",
                      g |-> [author_ids |-> dd.author_ids,
                             authors    |-> authors2,
                             documents  |-> Put(g.documents, doc.hash,
                                 [doc |-> key,
                                  ids |-> doc_coauthor_ids \cup {parent_id}]),
                             rnd |-> IF NEW_DOC THEN g.rnd + Len(doc.authors)
                                     ELSE g.rnd]]

\* add_document with the parent's neighbour set looked up in the
\* defaultdict before the registry is consulted: a failed call then leaves
\* the key behind.
add_document_touch_first(g, d_dict, order) ==
    LET made == Document(d_dict)
    IN  IF made.err # "" THEN [err |-> made.err, g |-> g]
        ELSE IF Len(made.doc.authors) <= 1 THEN [err |-> "", g |-> g]
        ELSE resolve_and_link(
                 [g EXCEPT !.authors = Touch(g.authors, made.doc.parent_author)],
                 made.doc, order)

\* Graph.add_document: [err, g].  (The keys of d_dict are lower-cased and
\* their spaces replaced first; the inputs here have them in that form.)
add_document(g, d_dict, order) ==
    LET made == Document(d_dict)
    IN  IF made.err # "" THEN [err |-> made.err, g |-> g]
        ELSE IF Len(made.doc.authors) <= 1 THEN [err |-> "", g |-> g]
        ELSE resolve_and_link(g, made.doc, order)

\* Graph.edge_list, without the header row: the set of rows it yields.
\* combinations(ids, 2) gives each unordered pair once; the row's doc_id
\* is that of the key Document, one per entry of documents, named here by
\* the entry's fingerprint.
edge_list(g) ==
    UNION {{<<pair, h>> :
               pair \in {p \in SUBSET g.documents[h].ids : Cardinality(p) = 2}} :
           h \in DOMAIN g.documents}

----------------------------------------------------------------------------
(* Inputs                                                                  *)

JaneDoe   == <<"J", "a", "n", "e", " ", "D", "o", "e">>
JDoe      == <<"J", " ", "D", "o", "e">>
JohnQReed == <<"J", "o", "h", "n", " ", "Q", " ", "R", "e", "e", "d">>
JReed     == <<"J", " ", "R", "e", "e", "d">>
Reed      == <<"R", "e", "e", "d">>          \* one token: no ' '
SpaceDoe  == <<" ", "D", "o", "e">>          \* its only ' ' comes first

IdA == <<"A">>
IdB == <<"B">>

\* How many random ids the Graph may draw in one run.
MaxRandom == 4

\* The keyword arguments of Document(...), the optional ones at their
\* default ''.
DocArgs(title, parent, names) ==
    [title |-> title, parent_author |-> parent, authors |-> names,
     publication_date |-> "", pages |-> "", publisher |-> "", journal |-> "",
     volume |-> "", issue |-> "", conference |-> "", book |-> ""]

----------------------------------------------------------------------------
(* Specification DocSpec: Document(...) on every combination of empty and  *)
(* non-empty fields                                                        *)

DocFieldSets ==
    [title : {"", "X", "Y"}, parent_author : {IdA},
     authors : {<<JaneDoe, JohnQReed>>},
     publication_date : {"", "d"}, pages : {"", "p"}, publisher : {"", "b"},
     journal : {"", "j"}, volume : {"", "v"}, issue : {"", "i"},
     conference : {"", "c"}, book : {"", "k"}]

NotCalled == [called |-> FALSE, err |-> "", hash |-> Md5("")]

Outcome(made) == [called |-> TRUE, err |-> made.err, hash |-> made.doc.hash]

NoOther == [called |-> FALSE, fields |-> DocArgs("", IdA, << >>), err |-> "",
            hash |-> Md5("")]

\* doc = Document(**d_dict)
Construct ==
    /\ ~d_result.called
    /\ d_result' = Outcome(Document(d_fields))
    /\ UNCHANGED <<d_fields, d_again, d_other>>
    /\ UNCHANGED <<graphVars, crawlVars, mergeVars, poolVars>>

\* a second Document(**d_dict) with the same arguments
ConstructAgain ==
    /\ d_result.called
    /\ ~d_again.called
    /\ d_again' = Outcome(Document(d_fields))
    /\ UNCHANGED <<d_fields, d_result, d_other>>
    /\ UNCHANGED <<graphVars, crawlVars, mergeVars, poolVars>>

DocInit ==
    /\ d_fields \in DocFieldSets
    /\ d_result = NotCalled
    /\ d_again = NotCalled
    /\ d_other = NoOther
    /\ author_ids = << >>
    /\ authors = << >>
    /\ documents = << >>
    /\ rnd = 0
    /\ g_last = [op |-> "", err |-> "",
                 a_dict |-> [name |-> NoChars, author_id |-> None],
                 d_dict |-> DocArgs("", None, << >>)]
    /\ max_hops = 1
    /\ max_author_search_page = 3
    /\ request_queue = << >>
    /\ active_request = << >>
    /\ active_response = << >>
    /\ heap = << >>
    /\ nodes = << >>
    /\ edges = << >>
    /\ n_random = 0
    /\ pc = "idle"
    /\ err = ""
    /\ steps = 0
    /\ crawl_i = 1
    /\ url_list = << >>
    /\ url_ix = 0
    /\ site_down = {}
    /\ site_blocked = {}
    /\ searches = 0
    /\ log = << >>
    /\ m_a = None
    /\ m_b = None
    /\ m_ab = NotMerged
    /\ m_ba = NotMerged
    /\ m_aa = NotMerged
    /\ m_abb = NotMerged
    /\ m_upd = NotUpdated
    /\ q_pool_size = 5
    /\ q_futures = << >>
    /\ q_workers = << >>
    /\ q_pc = "idle"
    /\ q_req = 0
    /\ q_k = 0
    /\ q_scan = << >>
    /\ q_ix = 0
    /\ q_count = 0
    /\ q_completed = << >>
    /\ q_status = << >>
    /\ q_delivered = << >>
    /\ q_err = ""

\* other = Document(**fields), a Document of any other combination
ConstructOther ==
    /\ d_again.called
    /\ ~d_other.called
    /\ \E fields \in DocFieldSets :
          \E made \in {Document(fields)} :
              d_other' = [called |-> TRUE, fields |-> fields,
                          err |-> made.err, hash |-> made.doc.hash]
    /\ UNCHANGED <<d_fields, d_result, d_again>>
    /\ UNCHANGED <<graphVars, crawlVars, mergeVars, poolVars>>

DocNext == Construct \/ ConstructAgain \/ ConstructOther

DocSpec == DocInit /\ [][DocNext]_vars

----------------------------------------------------------------------------
(* Specification Spec: any sequence of Graph.add_author and                *)
(* Graph.add_document calls                                                *)

G == [author_ids |-> author_ids, authors |-> authors,
      documents |-> documents, rnd |-> rnd]

\* a_dict values: a profile owner with an external id, an author without
\* an id, a one-token name, and a coauthor registered under the random id
\* that an earlier add_document gave it.
AuthorInputs ==
    {[name |-> JaneDoe, author_id |-> IdA],
     [name |-> JaneDoe, author_id |-> None],
     [name |-> Reed,    author_id |-> IdB]}
    \cup {[name |-> n, author_id |-> k] :
              n \in {JohnQReed, JDoe},
              k \in UNION {documents[h].ids : h \in DOMAIN documents} \ {IdA}}

\* d_dict values, all with parent IdA, and one with a parent that is
\* never registered.
DocInputs ==
    {DocArgs(t[1], IdA, t[2]) :
        t \in {<<"X", <<JaneDoe, JohnQReed>>>>,
               <<"Y", <<JaneDoe, JReed>>>>,
               <<"Z", <<JaneDoe, JDoe>>>>,
               <<"W", <<SpaceDoe, JaneDoe>>>>,
               <<"V", <<JaneDoe, Reed>>>>,
               <<"",  <<JaneDoe, JohnQReed>>>>}}
    \cup {DocArgs("X", IdB, <<JaneDoe, JohnQReed>>)}

Perms(S) ==
    {q \in [1..Cardinality(S) -> S] :
        \A i, k \in 1..Cardinality(S) : i # k => q[i] # q[k]}

\* The orders in which the set self.documents[doc] may be iterated.
Orders(g, d_dict) ==
    LET made == Document(d_dict)
    IN  IF made.err = "" /\ made.doc.hash \in DOMAIN g.documents
        THEN Perms(g.documents[made.doc.hash].ids)
        ELSE {<< >>}

NoCall == [op |-> "", err |-> "", a_dict |-> [name |-> NoChars, author_id |-> None],
           d_dict |-> DocArgs("", None, << >>)]

Install(g) ==
    /\ author_ids' = g.author_ids
    /\ authors' = g.authors
    /\ documents' = g.documents
    /\ rnd' = g.rnd

AddAuthor ==
    /\ \E a_dict \in AuthorInputs :
        \E r \in {add_author(G, a_dict)} :
            /\ r.g.rnd <= MaxRandom
            /\ Install(r.g)
            /\ g_last' = [NoCall EXCEPT !.op = "add_author", !.err = r.err,
                                        !.a_dict = a_dict]
    /\ UNCHANGED <<docVars, crawlVars, mergeVars, poolVars>>

AddDocument ==
    /\ \E d_dict \in DocInputs :
        \E order \in Orders(G, d_dict) :
            \E r \in {add_document(G, d_dict, order)} :
                /\ r.g.rnd <= MaxRandom
                /\ Install(r.g)
                /\ g_last' = [NoCall EXCEPT !.op = "add_document", !.err = r.err,
                                            !.d_dict = d_dict]
    /\ UNCHANGED <<docVars, crawlVars, mergeVars, poolVars>>

Init ==
    /\ author_ids = EmptyGraph.author_ids
    /\ authors = EmptyGraph.authors
    /\ documents = EmptyGraph.documents
    /\ rnd = EmptyGraph.rnd
    /\ g_last = NoCall
    /\ d_fields = DocArgs("", IdA, << >>)
    /\ d_result = NotCalled
    /\ d_again = NotCalled
    /\ d_other = NoOther
    /\ max_hops = 1
    /\ max_author_search_page = 3
    /\ request_queue = << >>
    /\ active_request = << >>
    /\ active_response = << >>
    /\ heap = << >>
    /\ nodes = << >>
    /\ edges = << >>
    /\ n_random = 0
    /\ pc = "idle"
    /\ err = ""
    /\ steps = 0
    /\ crawl_i = 1
    /\ url_list = << >>
    /\ url_ix = 0
    /\ site_down = {}
    /\ site_blocked = {}
    /\ searches = 0
    /\ log = << >>
    /\ m_a = None
    /\ m_b = None
    /\ m_ab = NotMerged
    /\ m_ba = NotMerged
    /\ m_aa = NotMerged
    /\ m_abb = NotMerged
    /\ m_upd = NotUpdated
    /\ q_pool_size = 5
    /\ q_futures = << >>
    /\ q_workers = << >>
    /\ q_pc = "idle"
    /\ q_req = 0
    /\ q_k = 0
    /\ q_scan = << >>
    /\ q_ix = 0
    /\ q_count = 0
    /\ q_completed = << >>
    /\ q_status = << >>
    /\ q_delivered = << >>
    /\ q_err = ""

Next == AddAuthor \/ AddDocument

Spec == Init /\ [][Next]_vars

----------------------------------------------------------------------------
(* Claims about Graph (specification Spec)                                 *)

\* self.authors[x] read through the defaultdict
Neighbours(x) == IF x \in DOMAIN authors THEN authors[x] ELSE {}

\* The step just taken was add_document(d_dict) on a document whose
\* fingerprint was already in the graph with the same fields, with at least
\* two coauthor names and a registered parent.
IsSecondIngest ==
    /\ g_last'.op = "add_document"
    /\ Document(g_last'.d_dict).err = ""
    /\ Len(Document(g_last'.d_dict).doc.authors) >= 2
    /\ g_last'.d_dict.parent_author \in DOMAIN author_ids
    /\ Document(g_last'.d_dict).doc.hash \in DOMAIN documents
    /\ documents[Document(g_last'.d_dict).doc.hash].doc = Document(g_last'.d_dict).doc

\* C1: ingesting a document that is already in the graph, with identical
\* fields, at least two coauthor names and a registered parent, succeeds
\* and leaves the author ids, the document entries and the edge list as
\* they were.
C1_SecondIngestChangesNothing ==
    [][IsSecondIngest =>
          /\ g_last'.err = ""
          /\ DOMAIN author_ids' = DOMAIN author_ids
          /\ DOMAIN authors' = DOMAIN authors
          /\ DOMAIN documents' = DOMAIN documents
          /\ edge_list([documents |-> documents'])
                 = edge_list([documents |-> documents])]_vars

\* C2: Graph.authors is the clique closure of Graph.documents: any two
\* distinct ids of one document's resolved coauthor set are neighbours of
\* each other.
C2_AdjacencyIsCliqueClosure ==
    \A h \in DOMAIN documents :
        \A x, y \in documents[h].ids :
            x # y => (y \in Neighbours(x) /\ x \in Neighbours(y))

\* The match keys, other than the parent's, of the coauthor names of the
\* document stored under fingerprint h.
CoauthorKeys(h) ==
    LET doc == documents[h].doc
    IN  {filn_of(doc.authors[i]) : i \in 1..Len(doc.authors)}
            \ {author_ids[doc.parent_author].filn}

\* C3: two documents with different fingerprints and the same registered
\* parent resolve a match key they both list to one shared author id, and
\* the parent has one neighbour per match key: the documents share at
\* least as many coauthor ids as match keys, and the parent has no more
\* neighbours than its documents list match keys.
C3_SameKeySameId ==
    \A h1, h2 \in DOMAIN documents :
        LET p == documents[h1].doc.parent_author
        IN  (/\ h1 # h2
             /\ p = documents[h2].doc.parent_author
             /\ p \in DOMAIN author_ids
             /\ author_ids[p].author_id = p)
            => /\ Cardinality((documents[h1].ids \cap documents[h2].ids) \ {p})
                      >= Cardinality(CoauthorKeys(h1) \cap CoauthorKeys(h2))
               /\ Cardinality(Neighbours(p))
                      <= Cardinality(UNION {CoauthorKeys(h) :
                             h \in {k \in DOMAIN documents :
                                        documents[k].doc.parent_author = p}})

\* C9: an add_document call that ends with an error leaves the identity
\* registry, the document map and the adjacency map as they were.
C9_FailedIngestIsAtomic ==
    [][(g_last'.op = "add_document" /\ g_last'.err # "")
          => /\ author_ids' = author_ids
             /\ authors' = authors
             /\ documents' = documents]_vars

\* C9 witness: an add_document call failed on a coauthor id that is not in
\* the registry, in a graph that holds authors, neighbours and documents.
C9_Witness ==
    /\ g_last.op = "add_document"
    /\ g_last.err = "KeyError"
    /\ g_last.d_dict.parent_author \in DOMAIN author_ids
    /\ documents # << >>
    /\ \E x \in DOMAIN authors : authors[x] # {}

\* The ids that stand for the parent's own name in the coauthor list that
\* add_document(d_dict) builds in graph g: for a new document the ids drawn
\* for the names whose filn is the parent's, for a known document the
\* stored ids, other than the parent's, of authors whose filn is the parent's.
ParentNameIds(g, d_dict) ==
    LET doc == Document(d_dict).doc
        parent == g.author_ids[doc.parent_author]
        created == new_coauthors(doc.authors, doc.parent_author, g.rnd).objs
    IN  IF doc.hash \notin DOMAIN g.documents
        THEN {created[i].author_id :
                 i \in {k \in 1..Len(created) : created[k].filn = parent.filn}}
        ELSE {x \in g.documents[doc.hash].ids \ {doc.parent_author} :
                 x \in DOMAIN g.author_ids
                    /\ g.author_ids[x].filn = parent.filn}

\* An add_document call has just ingested a document of two or more authors
IngestedDocument ==
    /\ g_last'.op = "add_document"
    /\ g_last'.err = ""
    /\ Document(g_last'.d_dict).err = ""
    /\ Len(Document(g_last'.d_dict).doc.authors) > 1

\* C20: when add_document ingests a document, a coauthor name whose filn is
\* the parent's is taken for the parent: the ids stored for the document
\* hold the parent's id and no id that stands for that name, and the
\* parent's neighbour set gains no such id.
C20_ParentNameIsTheParent ==
    [][IngestedDocument =>
          LET doc == Document(g_last'.d_dict).doc
              pid == doc.parent_author
              own == ParentNameIds(G, g_last'.d_dict)
              before == IF pid \in DOMAIN authors THEN authors[pid] ELSE {}
          IN  /\ pid \in documents'[doc.hash].ids
              /\ documents'[doc.hash].ids \cap own = {}
              /\ (authors'[pid] \ before) \cap own = {}]_vars

\* C20 witness: a document was ingested whose author list names the parent
\* and another author; the parent and the other author are its ids.
C20_Witness ==
    /\ g_last.op = "add_document"
    /\ g_last.err = ""
    /\ Document(g_last.d_dict).err = ""
    /\ LET doc == Document(g_last.d_dict).doc
           pid == doc.parent_author
       IN  /\ pid \in DOMAIN author_ids
           /\ doc.hash \in DOMAIN documents
           /\ \E i \in 1..Len(doc.authors) :
                 Author(doc.authors[i], None, pid, RandomId(0)).obj.filn
                     = author_ids[pid].filn
           /\ Cardinality(documents[doc.hash].ids) = 2
           /\ authors[pid] # {}

\* An add_author call has just registered the record g_last'.a_dict
AuthorAdded == g_last'.op = "add_author" /\ g_last'.err = ""

\* The graph after the step
GNext == [author_ids |-> author_ids', authors |-> authors',
          documents |-> documents', rnd |-> rnd']

\* A second add_author with the record of the step changes nothing
SecondAddChangesNothing ==
    LET again == add_author(GNext, g_last'.a_dict).g
    IN  /\ again.author_ids = author_ids'
        /\ again.authors = authors'
        /\ again.documents = documents'

\* The step removes no neighbour and no document
NothingRemoved ==
    /\ \A x \in DOMAIN authors :
          x \in DOMAIN authors' /\ authors[x] \subseteq authors'[x]
    /\ documents' = documents

\* C22 as stated: add_author called twice with the same record, whatever
\* the record, leaves the registry, the adjacency map and the document map
\* as after one call, and add_author removes no neighbour and no document.
C22_AddAuthorIdempotent ==
    [][AuthorAdded => SecondAddChangesNothing /\ NothingRemoved]_vars

\* C22, for records that carry an author id: add_author called twice with
\* the same record leaves the registry, the adjacency map and the document
\* map as after one call; and add_author, with or without an id, removes no
\* neighbour and no document.
C22_AddAuthorIdempotentWithId ==
    [][AuthorAdded =>
          /\ (g_last'.a_dict.author_id # None
                 /\ g_last'.a_dict.author_id # NoChars)
                => SecondAddChangesNothing
          /\ NothingRemoved]_vars

\* C22 witness: add_author was called for an id that is registered and has
\* a neighbour and a document.
C22_Witness ==
    /\ g_last.op = "add_author"
    /\ g_last.err = ""
    /\ g_last.a_dict.author_id = IdA
    /\ authors[IdA] # {}
    /\ \E h \in DOMAIN documents : IdA \in documents[h].ids

\* C29: every author id that the graph refers to (a key of the adjacency
\* map, an id in a neighbour set, an id in a document's set) is a key of
\* the registry author_ids.
C29_ReferencedIdsAreRegistered ==
    /\ \A x \in DOMAIN authors :
          x \in DOMAIN author_ids /\ authors[x] \subseteq DOMAIN author_ids
    /\ \A h \in DOMAIN documents :
          documents[h].ids \subseteq DOMAIN author_ids

----------------------------------------------------------------------------
(* Claims about Document (specification DocSpec)                           *)

\* C10: Document(...) succeeds for every combination of empty and
\* non-empty title, book and metadata fields, and a second construction
\* with the same fields gives the same fingerprint.
C10_EveryDocumentHasAFingerprint ==
    /\ d_result.called => d_result.err = ""
    /\ (d_result.called /\ d_again.called) => d_again = d_result

\* The non-empty ones of venue (journal, else conference, else book),
\* volume+issue, pages, date and publisher of the fields f
MetadataParts(f) ==
    NonEmpty(<<IF f.journal # "" THEN f.journal
               ELSE IF f.conference # "" THEN f.conference ELSE f.book,
               f.volume \o f.issue, f.pages, f.publication_date,
               f.publisher>>)

----------------------------------------------------------------------------
(* requests.py: the request objects                                        *)

\* A URL, by the parts the site tells apart: the n of a name-search URL is
\* the result page it asks for, the n of a profile URL is its cstart.
NoUrl == [kind |-> "", user |-> "", n |-> 0, terms |-> ""]

SearchUrl(p) == [NoUrl EXCEPT !.kind = "search", !.n = p]

ProfileUrl(user, cstart) ==
    [NoUrl EXCEPT !.kind = "profile", !.user = user, !.n = cstart]

TitleUrl(terms) == [NoUrl EXCEPT !.kind = "title", !.terms = terms]

\* The defaults of the constructors' arguments.
AuthorSearchMaxPage == 10
DefaultMaxAuthorPage == 3
PageSize == 100

\* A request in the frontier.  AuthorSearch and TitleSearch objects are
\* never changed after they are queued and are kept by value; an Author is
\* kept by reference, ref being its index in heap.
NoRequest ==
    [kind |-> "", ref |-> 0, request_url |-> NoUrl, hop |-> 0, page |-> 0,
     max_page |-> 0, max_author_page |-> 0, parent_author |-> 0]

\* AuthorSearch.__init__
AuthorSearch(request_url, max_page, max_author_page) ==
    [NoRequest EXCEPT !.kind = "AuthorSearch", !.request_url = request_url,
                      !.max_page = max_page,
                      !.max_author_page = max_author_page, !.page = 1]

\* AuthorSearch.from_author_string, for the one author string of the model
from_author_string ==
    AuthorSearch(SearchUrl(1), AuthorSearchMaxPage, DefaultMaxAuthorPage)

\* Author.__set_key
set_key(name, author_id) ==
    IF author_id # "" THEN Md5(author_id) ELSE Md5(name)

\* requests.Author.__init__
RequestAuthor(name, profile_name, author_id, max_page, request_url, hop) ==
    [name |-> name, profile_name |-> profile_name, author_id |-> author_id,
     max_page |-> max_page, request_url |-> request_url, hop |-> hop,
     full_title |-> "", institution |-> "", email_domain |-> "",
     interests |-> << >>, key |-> set_key(name, author_id)]

AuthorRef(k) == [NoRequest EXCEPT !.kind = "Author", !.ref = k]

\* The k-th random id, '#' and eight random characters
RandomAuthorId(k) == "#" \o ToString(k)

\* Author.randomize_empty_id: the key is not computed again, the call of
\* __set_key lacks its parentheses
randomize_empty_id(self, k) ==
    IF self.author_id = ""
    THEN [self |-> [self EXCEPT !.author_id = RandomAuthorId(k + 1)],
          n_random |-> k + 1]
    ELSE [self |-> self, n_random |-> k]

\* TitleSearch.__init__
TitleSearch(request_url, hop, max_author_page, parent_author) ==
    [NoRequest EXCEPT !.kind = "TitleSearch", !.request_url = request_url,
                      !.hop = hop, !.max_author_page = max_author_page,
                      !.parent_author = parent_author]

\* TitleSearch.from_search_terms
from_search_terms(terms, hop, parent_author) ==
    TitleSearch(TitleUrl(terms), hop, DefaultMaxAuthorPage, parent_author)

\* Author.urls
Author_urls(self) ==
    IF self.request_url = NoUrl THEN << >>
    ELSE IF self.max_page = 0 THEN <<ProfileUrl(self.author_id, 0)>>
    ELSE [k \in 1..self.max_page |->
              ProfileUrl(self.author_id, (k - 1) * PageSize)]

\* request.urls
request_urls(request, hp) ==
    IF request.kind = "Author" THEN Author_urls(hp[request.ref])
    ELSE <<request.request_url>>

\* A parse that follows the "next page" button wherever there is one
follows_every_next(self, next_url) == next_url # NoUrl

\* AuthorSearch.parse, line 93: next_url and (self.page < self.max_page)
follows_next(self, next_url) ==
    next_url # NoUrl /\ self.page < self.max_page

\* AuthorSearch.parse: [err, heap, new_requests]
AuthorSearch_parse(self, h, hp) ==
    LET made    == [k \in 1..Len(h.author_links) |->
                       RequestAuthor(h.author_links[k].text,
                                     h.author_links[k].text,
                                     h.author_links[k].user,
                                     self.max_author_page,
                                     ProfileUrl(h.author_links[k].user, 0),
                                     0)]
        next_search ==
            IF follows_next(self, h.next_url)
            THEN <<[AuthorSearch(h.next_url, self.max_page,
                                 DefaultMaxAuthorPage)
                        EXCEPT !.page = self.page + 1]>>
            ELSE << >>
    IN  [err |-> "", heap |-> hp \o made,
         new_requests |-> next_search
                \o [k \in 1..Len(made) |-> AuthorRef(Len(hp) + k)]]

\* Author.parse of the Author at heap[ref]: [err, heap, new_requests]
Author_parse(ref, h, hp) ==
    LET self == hp[ref]
        updated == [self EXCEPT !.profile_name = h.gsc_prf_in[1],
                                !.author_id = h.url.user,
                                !.full_title = h.full_title,
                                !.institution = h.institution,
                                !.email_domain = h.email_domain,
                                !.interests = h.interests]
    IN  IF h.url.user = ""
        THEN [err |-> "IndexError", heap |-> hp, new_requests |-> << >>]
        ELSE IF h.gsc_prf_in = << >>
        THEN [err |-> "AttributeError", heap |-> hp, new_requests |-> << >>]
        ELSE [err |-> "", heap |-> [hp EXCEPT ![ref] = updated],
              new_requests |->
                  IF updated.max_page # 0
                  THEN [k \in 1..Len(h.title_fragments) |->
                           from_search_terms(h.title_fragments[k],
                                             self.hop + 1, ref)]
                  ELSE << >>]

\* requests.Document
NoDocument ==
    [doc_id |-> "", title |-> "", parent_author |-> 0, authors |-> << >>,
     key |-> Md5("")]

RequestDocument(doc_id, title, parent_author, doc_authors_) ==
    [doc_id |-> doc_id, title |-> title, parent_author |-> parent_author,
     authors |-> doc_authors_, key |-> Md5(doc_id)]

\* list.index by Author.__eq__: the first reference whose Author has the
\* key, 0 when there is none
IndexOfKey(refs, key, hp) ==
    IF \E k \in 1..Len(refs) : hp[refs[k]].key = key
    THEN CHOOSE k \in 1..Len(refs) :
            /\ hp[refs[k]].key = key
            /\ \A j \in 1..(k - 1) : hp[refs[j]].key # key
    ELSE 0

RemoveAt(s, k) == SubSeq(s, 1, k - 1) \o SubSeq(s, k + 1, Len(s))

\* TitleSearch.parse, the first document of _search_parser_gen:
\* [err, heap, document]
TitleSearch_parse(self, h, hp) ==
    IF h.doc_divs = << >>
    THEN [err |-> "StopIteration", heap |-> hp, document |-> NoDocument]
    ELSE
    LET div == h.doc_divs[1]
        names == SelectSeq(div.nolink, LAMBDA a : Len(a) > 2)
        authors_nolink == [k \in 1..Len(names) |->
                              RequestAuthor(names[k], "", "", 0, NoUrl, 0)]
        authors_linked == [k \in 1..Len(div.linked) |->
                              RequestAuthor(div.linked[k].text, "",
                                            div.linked[k].user,
                                            self.max_author_page, NoUrl, 0)]
        hp2 == hp \o authors_nolink \o authors_linked
        nolink_refs == [k \in 1..Len(names) |-> Len(hp) + k]
        linked_refs == [k \in 1..Len(div.linked) |-> Len(hp) + Len(names) + k]
        at == IndexOfKey(linked_refs, hp2[self.parent_author].key, hp2)
        popped == IF at = 0 THEN linked_refs ELSE RemoveAt(linked_refs, at)
    IN  [err |-> "", heap |-> hp2,
         document |-> RequestDocument(div.doc_id, div.full_title,
                                      self.parent_author,
                                      Append(popped, self.parent_author)
                                          \o nolink_refs)]

----------------------------------------------------------------------------
(* graph.py: AuthorGraph                                                   *)

\* ScholarQueue builds AuthorGraph() with its default.
merge_no_id_authors == FALSE

\* self.nodes[author] on the defaultdict(list)
TouchNode(nd, key, ref) ==
    IF key \in DOMAIN nd THEN nd ELSE Put(nd, key, [node |-> ref, docs |-> << >>])

\* add_publication, lines 56-64, for doc.authors[ix..]
RECURSIVE add_doc_authors(_, _, _)
add_doc_authors(ix, doc, st) ==
    IF ix > Len(doc.authors) THEN st
    ELSE
    LET ref == doc.authors[ix]
        randomized == IF ~merge_no_id_authors
                      THEN randomize_empty_id(st.heap[ref], st.n_random)
                      ELSE [self |-> st.heap[ref], n_random |-> st.n_random]
        key == randomized.self.key
        touched == TouchNode(st.nodes, key, ref)
    IN  add_doc_authors(ix + 1, doc,
            [st EXCEPT !.heap[ref] = randomized.self,
                       !.n_random = randomized.n_random,
                       !.new_authors = IF key \notin DOMAIN st.nodes
                                       THEN Append(@, ref) ELSE @,
                       !.nodes = [touched EXCEPT ![key].docs =
                                                     Append(@, doc.key)]])

\* AuthorGraph.add_publication on st = [nodes, edges, heap, n_random]: the
\* same with new_authors.  edges[key] is the Document first added under the
\* key; its authors are the list that self.edges holds for it.
add_publication(st, doc) ==
    IF doc.key \in DOMAIN st.edges
    THEN
        LET parent_key == st.heap[doc.parent_author].key
            current_authors == st.edges[doc.key].authors
            absent == \A j \in 1..Len(current_authors) :
                          st.heap[current_authors[j]].key # parent_key
            touched == TouchNode(st.nodes, parent_key, doc.parent_author)
        IN  [nodes |-> IF doc.key \notin ToSet(touched[parent_key].docs)
                       THEN [touched EXCEPT ![parent_key].docs =
                                                Append(@, doc.key)]
                       ELSE touched,
             edges |-> IF absent
                       THEN [st.edges EXCEPT ![doc.key].authors =
                                                 Append(@, doc.parent_author)]
                       ELSE st.edges,
             heap |-> st.heap, n_random |-> st.n_random,
             new_authors |-> IF absent THEN <<doc.parent_author>> ELSE << >>]
    ELSE
        add_doc_authors(1, doc,
            [nodes |-> st.nodes,
             edges |-> Put(st.edges, doc.key, doc),
             heap |-> st.heap, n_random |-> st.n_random,
             new_authors |-> << >>])

\* AuthorGraph.get_node_id
get_node_id(node) ==
    IF merge_no_id_authors THEN node.name \o ":" \o node.author_id
    ELSE node.author_id

\* AuthorGraph.generate_edge_list, without the header: the set of tuples
\* it yields, one for each pair of combinations(authors, 2) of each edge
generate_edge_list(ed, hp) ==
    UNION {{<<get_node_id(hp[ed[d].authors[p[1]]]),
              get_node_id(hp[ed[d].authors[p[2]]]), d>> :
               p \in {q \in (1..Len(ed[d].authors)) \X (1..Len(ed[d].authors)) :
                         q[1] < q[2]}} :
           d \in DOMAIN ed}

\* AuthorGraph.generate_node_attrs, without the header: the node ids of the
\* tuples it yields, one for each key of self.nodes
generate_node_attrs(nd, hp) == {get_node_id(hp[nd[key].node]) : key \in DOMAIN nd}

----------------------------------------------------------------------------
(* The site: what the pages hold, as the fields the parsers take from them *)

NoPage ==
    [url |-> NoUrl, robot |-> FALSE, author_links |-> << >>,
     next_url |-> NoUrl, gsc_prf_in |-> << >>, full_title |-> "",
     institution |-> "", email_domain |-> "", interests |-> << >>,
     title_fragments |-> << >>, doc_divs |-> << >>]

\* The anti-automation page: none of the elements the parsers look for.
RobotPage == [NoPage EXCEPT !.robot = TRUE]

Link(text, user) == [text |-> text, user |-> user]

\* The result pages of the name search: one author a page, the first two
\* with a "next" button.
SearchPage(p) ==
    CASE p = 1 -> [NoPage EXCEPT !.author_links = <<Link("J Doe", "a1")>>,
                                 !.next_url = SearchUrl(2)]
      [] p = 2 -> [NoPage EXCEPT !.author_links = <<Link("R Roe", "a2")>>,
                                 !.next_url = SearchUrl(3)]
      [] OTHER -> NoPage

\* The profile pages: a1 lists t1 on its first page and t2 on its second,
\* a2 lists t1, t2 and t3 on its first.
ProfilePage(user, cstart) ==
    [NoPage EXCEPT
        !.gsc_prf_in = <<IF user = "a1" THEN "Jane Doe" ELSE "Rod Roe">>,
        !.full_title = "Professor",
        !.institution = IF user = "a1" THEN "U One" ELSE "U Two",
        !.email_domain = "u.edu",
        !.interests = <<"graphs">>,
        !.title_fragments =
            CASE user = "a1" /\ cstart = 0        -> <<"t1">>
              [] user = "a1" /\ cstart = PageSize -> <<"t2">>
              [] user = "a2" /\ cstart = 0        -> <<"t1", "t2", "t3">>
              [] OTHER                            -> << >>]

\* The title searches: t1 finds d1 by a1, a2 and an author without a
\* profile, t2 finds d2 by a1 and an author of the same name without a
\* profile, t3 finds nothing.
ResultPage(terms) ==
    CASE terms = "t1" ->
            [NoPage EXCEPT !.doc_divs =
                <<[doc_id |-> "d1", full_title |-> "Title One",
                   linked |-> <<Link("J Doe", "a1"), Link("R Roe", "a2")>>,
                   nolink |-> <<"N One">>]>>]
      [] terms = "t2" ->
            [NoPage EXCEPT !.doc_divs =
                <<[doc_id |-> "d2", full_title |-> "Title Two",
                   linked |-> <<Link("J Doe", "a1")>>,
                   nolink |-> <<"N One">>]>>]
      [] OTHER -> NoPage

WebPage(url) ==
    CASE url.kind = "search"  -> SearchPage(url.n)
      [] url.kind = "profile" -> ProfilePage(url.user, url.n)
      [] url.kind = "title"   -> ResultPage(url.terms)
      [] OTHER                -> NoPage

\* The URLs that a run may find down, and those it may find blocked.
DownUrls == {SearchUrl(2), TitleUrl("t2")}
BlockedUrls == {SearchUrl(1), ProfileUrl("a1", PageSize), TitleUrl("t1")}

----------------------------------------------------------------------------
(* queue.py: ScholarQueue                                                  *)

\* How many calls of search_authors, the largest steps argument of crawl,
\* and the largest max_hops and max_author_search_page a run is built with.
MaxSearches == 1
MaxSteps == 2
MaxHops == 1
MaxSearchPages == 2

RequestHop(request, hp) ==
    IF request.kind = "Author" THEN hp[request.ref].hop ELSE request.hop

\* process_response, lines 124-126
stop_at_last_hop(request, st) ==
    IF request.kind = "Author" /\ RequestHop(request, st.heap) >= max_hops
    THEN [st EXCEPT !.heap[request.ref].max_page = 0]
    ELSE st

\* process_response, lines 111-121 and 129-131, on
\* st = [request_queue, nodes, edges, heap, n_random]: [err, st].  The
\* Authors that TitleSearch.parse makes for a document the graph already
\* has are referenced by nothing afterwards and are not kept in heap.
parse_response(request, response, st) ==
    IF request.kind = "TitleSearch"
    THEN
        LET parsed == TitleSearch_parse(request, response, st.heap)
            known == parsed.document.key \in DOMAIN st.edges
            added == add_publication(
                         [nodes |-> st.nodes, edges |-> st.edges,
                          heap |-> parsed.heap, n_random |-> st.n_random],
                         parsed.document)
        IN  IF parsed.err # "" THEN [err |-> parsed.err, st |-> st]
            ELSE [err |-> "",
                  st |-> [request_queue |-> st.request_queue
                              \o [k \in 1..Len(added.new_authors) |->
                                     AuthorRef(added.new_authors[k])],
                          nodes |-> added.nodes, edges |-> added.edges,
                          heap |-> IF known THEN st.heap ELSE added.heap,
                          n_random |-> added.n_random]]
    ELSE
        LET parsed == IF request.kind = "Author"
                      THEN Author_parse(request.ref, response, st.heap)
                      ELSE AuthorSearch_parse(request, response, st.heap)
        IN  IF parsed.err # "" THEN [err |-> parsed.err, st |-> st]
            ELSE [err |-> "",
                  st |-> [st EXCEPT !.heap = parsed.heap,
                                    !.request_queue = @ \o parsed.new_requests]]

\* process_response that leaves max_page as it is at the last hop
process_response_unlimited(request, response, st) ==
    parse_response(request, response, st)

\* ScholarQueue.process_response
process_response(request, response, st) ==
    parse_response(request, response, stop_at_last_hop(request, st))

\* One entry of log.  key is the key of the Author the request is about:
\* the Author itself, or the parent of a TitleSearch.
Event(ev, request, url, by, hp) ==
    [ev |-> ev, kind |-> request.kind,
     key |-> CASE request.kind = "Author" -> hp[request.ref].key
               [] request.kind = "TitleSearch" -> hp[request.parent_author].key
               [] OTHER -> Md5(""),
     ref |-> request.ref,
     hop |-> IF request.kind = "" THEN 0 ELSE RequestHop(request, hp),
     request_url |-> request.request_url, url |-> url,
     by_kind |-> by.kind,
     by_hop |-> IF by.kind = "" THEN 0 ELSE RequestHop(by, hp)]

Appends(new_requests, by, hp) ==
    [k \in 1..Len(new_requests) |->
        Event("append", new_requests[k], NoUrl, by, hp)]

Stopped == {"idle", "returned", "error", "aborted"}

\* crawl() is left: its locals and those of get_next are gone
Leave(how, exception) ==
    /\ pc' = how
    /\ err' = exception
    /\ steps' = 0
    /\ crawl_i' = 1
    /\ url_list' = << >>
    /\ url_ix' = 0

\* crawl(steps), up to the first get_next()
Enter(n) ==
    /\ pc' = "pop"
    /\ err' = ""
    /\ steps' = n
    /\ crawl_i' = 1
    /\ url_list' = << >>
    /\ url_ix' = 0

\* ScholarQueue.search_authors, up to the first get_next() of its crawl()
SearchAuthors ==
    /\ pc \in Stopped
    /\ searches < MaxSearches
    /\ searches' = searches + 1
    /\ \E auth_search \in {[from_author_string
                               EXCEPT !.max_page = max_author_search_page]} :
        /\ request_queue' = Append(request_queue, auth_search)
        /\ log' = <<Event("append", auth_search, NoUrl, NoRequest, heap)>>
    /\ Enter(0)
    /\ UNCHANGED <<max_hops, max_author_search_page, active_request,
                   active_response, heap, nodes, edges, n_random, site_down,
                   site_blocked>>
    /\ UNCHANGED <<docVars, graphVars, mergeVars, poolVars>>

\* ScholarQueue.crawl(steps), up to the first get_next()
Crawl ==
    /\ pc \in Stopped
    /\ \E n \in 0..MaxSteps : Enter(n)
    /\ UNCHANGED <<max_hops, max_author_search_page, request_queue,
                   active_request, active_response, heap, nodes, edges,
                   n_random, site_down, site_blocked, searches, log>>
    /\ UNCHANGED <<docVars, graphVars, mergeVars, poolVars>>

\* A pop that takes the request appended last
pop_last(queue) ==
    [item |-> queue[Len(queue)], rest |-> SubSeq(queue, 1, Len(queue) - 1)]

\* self.request_queue.pop(0): [item, rest]
pop_first(queue) == [item |-> Head(queue), rest |-> Tail(queue)]

\* get_next, lines 59-63: pop the head and evaluate its urls
GetNext ==
    /\ pc = "pop"
    /\ IF request_queue = << >>
       THEN /\ Leave("error", "IndexError")
            /\ UNCHANGED <<request_queue, active_request, log>>
       ELSE /\ active_request' = pop_first(request_queue).item
            /\ request_queue' = pop_first(request_queue).rest
            /\ url_list' = request_urls(pop_first(request_queue).item, heap)
            /\ url_ix' = 0
            /\ pc' = "fetch"
            /\ log' = Append(log, Event("pop", pop_first(request_queue).item,
                                        NoUrl, NoRequest, heap))
            /\ UNCHANGED <<err, steps, crawl_i>>
    /\ UNCHANGED <<max_hops, max_author_search_page, active_response, heap,
                   nodes, edges, n_random, site_down, site_blocked, searches>>
    /\ UNCHANGED <<docVars, graphVars, mergeVars, poolVars>>

\* What the operator may type at the prompt of get_next
Answers == {<< >>, <<"y">>, <<"Y", "e", "s">>, <<"n">>, <<"N", "o">>}

\* Whether an answer asks to stop: anything typed that does not begin with y
IsAbort(ans) == ans # << >> /\ Lower(ans)[1] # "y"

\* A handler that shows the browser and goes on, whatever the answer
input_handler_resumes(ans) == ""

\* ScholarQueue._input_handler: "" when the crawl goes on, else the
\* exception raised
input_handler(ans) ==
    IF ans = << >> \/ Lower(ans)[1] = "y" THEN "" ELSE "KeyboardInterrupt"

\* get_next, lines 63-70: fetch the next url, and ask the operator when the
\* answer is an anti-automation page
Fetch ==
    /\ pc = "fetch"
    /\ url_ix < Len(url_list)
    /\ LET url == url_list[url_ix + 1]
           page == IF url \in site_blocked THEN RobotPage ELSE WebPage(url)
       IN  IF url \in site_down
           THEN /\ Leave("error", "TransportError")
                /\ UNCHANGED <<active_response, log>>
           ELSE \E ans \in Answers :
                /\ log' = Append(log, Event("fetch", active_request, url,
                                            NoRequest, heap))
                          \o IF page.robot /\ IsAbort(ans)
                             THEN <<Event("abort", active_request, url,
                                          NoRequest, heap)>>
                             ELSE << >>
                /\ IF page.robot /\ input_handler(ans) # ""
                   THEN /\ active_response' = page
                        /\ Leave("aborted", input_handler(ans))
                   ELSE /\ active_response' = [page EXCEPT !.url = url]
                        /\ url_ix' = url_ix + 1
                        /\ pc' = "process"
                        /\ UNCHANGED <<err, steps, crawl_i, url_list>>
    /\ UNCHANGED <<max_hops, max_author_search_page, request_queue,
                   active_request, heap, nodes, edges, n_random, site_down,
                   site_blocked, searches>>
    /\ UNCHANGED <<docVars, graphVars, mergeVars, poolVars>>

\* crawl, line 157: process_response(request, response)
Process ==
    /\ pc = "process"
    /\ \E r \in {process_response(active_request, active_response,
                    [request_queue |-> request_queue, nodes |-> nodes,
                     edges |-> edges, heap |-> heap,
                     n_random |-> n_random])} :
        /\ request_queue' = r.st.request_queue
        /\ nodes' = r.st.nodes
        /\ edges' = r.st.edges
        /\ heap' = r.st.heap
        /\ n_random' = r.st.n_random
        /\ log' = Append(log, Event("parse", active_request,
                                    active_response.url, NoRequest, heap))
                  \o Appends(SubSeq(r.st.request_queue,
                                    Len(request_queue) + 1,
                                    Len(r.st.request_queue)),
                             active_request, r.st.heap)
        /\ IF r.err # ""
           THEN Leave("error", r.err)
           ELSE /\ pc' = "fetch"
                /\ UNCHANGED <<err, steps, crawl_i, url_list, url_ix>>
    /\ UNCHANGED <<max_hops, max_author_search_page, active_request,
                   active_response, site_down, site_blocked, searches>>
    /\ UNCHANGED <<docVars, graphVars, mergeVars, poolVars>>

\* crawl, lines 160-162, when the urls of the request are used up
NextRequest ==
    /\ pc = "fetch"
    /\ url_ix = Len(url_list)
    /\ IF steps # 0 /\ crawl_i >= steps
       THEN Leave("returned", "")
       ELSE /\ crawl_i' = crawl_i + 1
            /\ pc' = "pop"
            /\ UNCHANGED <<err, steps, url_list, url_ix>>
    /\ UNCHANGED <<max_hops, max_author_search_page, request_queue,
                   active_request, active_response, heap, nodes, edges,
                   n_random, site_down, site_blocked, searches, log>>
    /\ UNCHANGED <<docVars, graphVars, mergeVars, poolVars>>

\* ScholarQueue(max_hops, max_author_search_page), on a site of which some
\* URLs are down and some are blocked
CrawlInit ==
    /\ max_hops \in 0..MaxHops
    /\ max_author_search_page \in 1..MaxSearchPages
    /\ site_down \in SUBSET DownUrls
    /\ site_blocked \in SUBSET BlockedUrls
    /\ request_queue = << >>
    /\ active_request = NoRequest
    /\ active_response = NoPage
    /\ heap = << >>
    /\ nodes = << >>
    /\ edges = << >>
    /\ n_random = 0
    /\ pc = "idle"
    /\ err = ""
    /\ steps = 0
    /\ crawl_i = 1
    /\ url_list = << >>
    /\ url_ix = 0
    /\ searches = 0
    /\ log = << >>
    /\ author_ids = << >>
    /\ authors = << >>
    /\ documents = << >>
    /\ rnd = 0
    /\ g_last = [op |-> "", err |-> "",
                 a_dict |-> [name |-> NoChars, author_id |-> None],
                 d_dict |-> DocArgs("", None, << >>)]
    /\ d_fields = DocArgs("", IdA, << >>)
    /\ d_result = NotCalled
    /\ d_again = NotCalled
    /\ d_other = NoOther
    /\ m_a = None
    /\ m_b = None
    /\ m_ab = NotMerged
    /\ m_ba = NotMerged
    /\ m_aa = NotMerged
    /\ m_abb = NotMerged
    /\ m_upd = NotUpdated
    /\ q_pool_size = 5
    /\ q_futures = << >>
    /\ q_workers = << >>
    /\ q_pc = "idle"
    /\ q_req = 0
    /\ q_k = 0
    /\ q_scan = << >>
    /\ q_ix = 0
    /\ q_count = 0
    /\ q_completed = << >>
    /\ q_status = << >>
    /\ q_delivered = << >>
    /\ q_err = ""

CrawlNext ==
    SearchAuthors \/ Crawl \/ GetNext \/ Fetch \/ Process \/ NextRequest

CrawlSpec == CrawlInit /\ [][CrawlNext]_vars

----------------------------------------------------------------------------
(* Claims about the crawl (specification CrawlSpec)                        *)

\* C4: crawl() stops normally: it never ends in an error merely because the
\* frontier ran empty.  The error that popping from an empty frontier
\* raises is IndexError, so no crawl ends with IndexError.
C4_CrawlStopsNormally == pc = "error" => err # "IndexError"

\* C5: the crawl does no duplicate work: since search_authors, no two
\* Author requests for the same author are appended to the frontier, no
\* profile page is fetched twice, and no two title searches for the same
\* title of the same parent author are appended.
C5_NoDuplicateWork ==
    \A j, k \in 1..Len(log) :
        j < k =>
            /\ ~(/\ log[j].ev = "append" /\ log[k].ev = "append"
                 /\ log[j].kind = "Author" /\ log[k].kind = "Author"
                 /\ log[j].key = log[k].key)
            /\ ~(/\ log[j].ev = "fetch" /\ log[k].ev = "fetch"
                 /\ log[j].url.kind = "profile"
                 /\ log[j].url = log[k].url)
            /\ ~(/\ log[j].ev = "append" /\ log[k].ev = "append"
                 /\ log[j].kind = "TitleSearch" /\ log[k].kind = "TitleSearch"
                 /\ log[j].request_url = log[k].request_url
                 /\ log[j].key = log[k].key)

\* The step is process_response on a page fetched for an Author whose hop
\* is max_hops or more.
IsLastHopProcess ==
    /\ pc = "process"
    /\ active_request.kind = "Author"
    /\ heap[active_request.ref].hop >= max_hops

\* C6: processing a page of an Author request whose hop is max_hops or more
\* appends no TitleSearch to the frontier, whichever page of the request it
\* is, and when the page is a profile page the Author's profile name,
\* institution and interests are those of the page.
C6_LastHopEmitsNoTitleSearch ==
    [][IsLastHopProcess =>
          /\ Len(request_queue') >= Len(request_queue)
          /\ \A k \in 1..Len(request_queue') :
                 k > Len(request_queue)
                     => request_queue'[k].kind # "TitleSearch"
          /\ active_response.gsc_prf_in # << >> =>
                 /\ heap'[active_request.ref].profile_name
                        = active_response.gsc_prf_in[1]
                 /\ heap'[active_request.ref].institution
                        = active_response.institution
                 /\ heap'[active_request.ref].interests
                        = active_response.interests]_vars

\* The second page of a last-hop Author has just been processed: the page
\* lists a title, and the Author has the institution of the page.
C6_Witness ==
    /\ pc = "fetch"
    /\ active_request.kind = "Author"
    /\ heap[active_request.ref].hop >= max_hops
    /\ url_ix = 2
    /\ active_response.title_fragments # << >>
    /\ active_response.institution # ""
    /\ heap[active_request.ref].institution = active_response.institution
    /\ heap[active_request.ref].interests = active_response.interests

\* C7: for an Author request with a profile URL whose hop is max_hops or
\* more, exactly one page is fetched: never a second one, and one by the
\* time its urls are used up.
C7_LastHopFetchesOnePage ==
    (/\ pc \in {"fetch", "process"}
     /\ active_request.kind = "Author"
     /\ heap[active_request.ref].hop >= max_hops
     /\ heap[active_request.ref].request_url # NoUrl)
        => /\ url_ix <= 1
           /\ url_ix = Len(url_list) => url_ix = 1

\* C8: the hop is carried forward: a TitleSearch appended while an Author
\* with hop h is processed has hop h + 1, and an Author appended while a
\* TitleSearch with hop h + 1 is processed has hop h + 1.
C8_HopCarriedForward ==
    \A k \in 1..Len(log) :
        log[k].ev = "append" =>
            /\ (log[k].kind = "TitleSearch" /\ log[k].by_kind = "Author")
                   => log[k].hop = log[k].by_hop + 1
            /\ (log[k].kind = "Author" /\ log[k].by_kind = "TitleSearch")
                   => log[k].hop = log[k].by_hop

\* C14: a transport failure on one URL does not abort the crawl: when the
\* fetch of the next URL fails, crawl() is not left with an error.
C14_TransportFailureDoesNotAbort ==
    [][(/\ pc = "fetch"
        /\ url_ix < Len(url_list)
        /\ url_list[url_ix + 1] \in site_down)
          => pc' # "error"]_vars

\* C15: processing the result page of a TitleSearch that holds no result
\* leaves the graph and the frontier unchanged and the crawl goes on
\* without an error.
C15_NoResultIsNoError ==
    [][(/\ pc = "process"
        /\ active_request.kind = "TitleSearch"
        /\ ~active_response.robot
        /\ active_response.doc_divs = << >>)
          => /\ pc' = "fetch"
             /\ nodes' = nodes
             /\ edges' = edges
             /\ request_queue' = request_queue]_vars

\* The step in which the operator answers abort at the prompt
OperatorAborts ==
    /\ pc = "fetch"
    /\ log' # log
    /\ log'[Len(log')].ev = "abort"

\* C18: when a fetched page carries an anti-automation marker and the
\* operator answers abort, crawl() ends with KeyboardInterrupt in that very
\* step and the graph and the frontier are as before; the blocked page is
\* not parsed and nothing is popped, fetched or added until crawl() or
\* search_authors() is called again.
C18_AbortEndsCrawl ==
    [][/\ OperatorAborts =>
            /\ pc' = "aborted" /\ err' = "KeyboardInterrupt"
            /\ active_response'.robot
            /\ nodes' = nodes /\ edges' = edges /\ heap' = heap
            /\ request_queue' = request_queue
       /\ \A k \in 1..Len(log) :
            log[k].ev = "abort" => k = Len(log) \/ log[k + 1].ev = "pop"
       /\ pc = "aborted" =>
            /\ log # << >> /\ log[Len(log)].ev = "abort"
            /\ pc' = "pop"
            /\ nodes' = nodes /\ edges' = edges /\ heap' = heap
            /\ log' = log \/ Len(log') = 1]_vars

C18_Witness ==
    /\ pc = "aborted"
    /\ log # << >> /\ log[Len(log)].ev = "abort"
    /\ request_queue # << >>
    /\ nodes # << >>

\* The keys of the authors that add_publication returned in this step: those
\* that process_response appended to the frontier
ReturnedKeys ==
    {heap'[request_queue'[k].ref].key :
        k \in (Len(request_queue) + 1)..Len(request_queue')}

\* C19: when a TitleSearch response is processed, the authors that
\* add_publication returns are exactly the authors that the call added to
\* the graph: those that are nodes after the call and were not before.
C19_ReturnsNewlyAdded ==
    [][(pc = "process" /\ active_request.kind = "TitleSearch")
          => ReturnedKeys = (DOMAIN nodes') \ (DOMAIN nodes)]_vars

\* The requests that process_response appended to the frontier in this step
Appended ==
    SubSeq(request_queue', Len(request_queue) + 1, Len(request_queue'))

\* The name searches among them
AppendedSearches == SelectSeq(Appended, LAMBDA r : r.kind = "AuthorSearch")

\* The fetches of result pages of the name search, so far
SearchFetches ==
    {k \in 1..Len(log) : log[k].ev = "fetch" /\ log[k].kind = "AuthorSearch"}

\* C21: parsing a result page of a name search emits a follow-up search
\* exactly when the page has a next page and page < max_page; the follow-up
\* is for the next page, with page + 1 and the same max_page; and the crawl
\* fetches at most max_page result pages for each seed search.
C21_SearchPagesBounded ==
    [][/\ (pc = "process" /\ active_request.kind = "AuthorSearch") =>
            IF active_response.next_url # NoUrl
               /\ active_request.page < active_request.max_page
            THEN /\ Len(AppendedSearches) = 1
                 /\ AppendedSearches[1].page = active_request.page + 1
                 /\ AppendedSearches[1].max_page = active_request.max_page
                 /\ AppendedSearches[1].request_url = active_response.next_url
            ELSE AppendedSearches = << >>
       /\ Cardinality(SearchFetches') <= searches' * max_author_search_page]_vars

\* C21 witness: with max_page 2 the first page gave a follow-up, the second
\* page, which also has a next page, was fetched and parsed and gave none.
C21_Witness ==
    /\ max_author_search_page = 2
    /\ searches = 1
    /\ Cardinality(SearchFetches) = 2
    /\ \E k \in 1..Len(log) :
          /\ log[k].ev = "parse" /\ log[k].kind = "AuthorSearch"
          /\ log[k].url = SearchUrl(2)
    /\ \A k \in 1..Len(request_queue) : request_queue[k].kind # "AuthorSearch"
    /\ SearchPage(2).next_url # NoUrl

\* The Author has an id that randomize_empty_id drew
HasDrawnId(a) == a.author_id \in {RandomAuthorId(k) : k \in 1..n_random}

\* C26: with merge_no_id_authors False, two authors without author_id that
\* have the same name and are on two different publications are two nodes
\* of the graph (their hashes differ) and have two different random ids.
C26_IdlessAuthorsStayApart ==
    ~merge_no_id_authors =>
        \A d1, d2 \in DOMAIN edges :
            d1 # d2 =>
                \A i \in 1..Len(edges[d1].authors),
                   j \in 1..Len(edges[d2].authors) :
                    LET a == heap[edges[d1].authors[i]]
                        b == heap[edges[d2].authors[j]]
                    IN  (HasDrawnId(a) /\ HasDrawnId(b) /\ a.name = b.name)
                            => /\ a.author_id # b.author_id
                               /\ a.key # b.key
                               /\ a.key \in DOMAIN nodes
                               /\ b.key \in DOMAIN nodes

\* The request an entry of log is about
EventRequest(e) == <<e.kind, e.ref, e.request_url>>

\* In the entries that the step adds to log, and the last one before them:
\* every fetch is of the request popped last, and is followed at once by
\* the parse of what it fetched, unless the operator aborted
FetchThenParse ==
    \A k \in (IF Len(log) = 0 THEN 1 ELSE Len(log))..Len(log') :
        log'[k].ev = "fetch" =>
            /\ \E j \in 1..(k - 1) :
                  /\ log'[j].ev = "pop"
                  /\ EventRequest(log'[j]) = EventRequest(log'[k])
                  /\ \A m \in (j + 1)..(k - 1) : log'[m].ev # "pop"
            /\ k < Len(log') =>
                  \/ log'[k + 1].ev = "abort"
                  \/ /\ log'[k + 1].ev = "parse"
                     /\ log'[k + 1].url = log'[k].url
                     /\ EventRequest(log'[k + 1]) = EventRequest(log'[k])
            /\ (k = Len(log') /\ pc' \notin Stopped) => pc' = "process"

\* C27: the frontier is first in, first out, and the crawl is sequential:
\* get_next pops the head of the frontier, every other step leaves the
\* frontier as it is or appends to its tail, the URLs of the popped request
\* are fetched in their order, and every fetched page is parsed before the
\* next fetch and before the next pop.
C27_FifoAndSequential ==
    [][/\ IF pc = "pop" /\ request_queue # << >>
          THEN /\ active_request' = Head(request_queue)
               /\ request_queue' = Tail(request_queue)
          ELSE /\ Len(request_queue') >= Len(request_queue)
               /\ SubSeq(request_queue', 1, Len(request_queue)) = request_queue
       /\ (pc = "fetch" /\ pc' = "process") =>
             /\ url_ix' = url_ix + 1
             /\ active_response'.url = url_list[url_ix']
       /\ FetchThenParse]_vars

\* C27 witness: the two pages of a profile were fetched and parsed one
\* after the other, and three requests have been popped.
C27_Witness ==
    /\ \E k \in 1..Len(log) :
          /\ k + 3 <= Len(log)
          /\ log[k].ev = "fetch" /\ log[k].url = ProfileUrl("a1", 0)
          /\ log[k + 1].ev = "parse"
          /\ \E m \in (k + 2)..(Len(log) - 1) :
                /\ log[m].ev = "fetch"
                /\ log[m].url = ProfileUrl("a1", PageSize)
                /\ log[m + 1].ev = "parse"
                /\ \A n \in k..m : log[n].ev # "pop"
    /\ Cardinality({k \in 1..Len(log) : log[k].ev = "pop"}) >= 3

\* C28: parse is called on normal responses only: no page that carries an
\* anti-automation marker is parsed, whatever the operator answered.
C28_RobotPageNeverParsed ==
    /\ pc = "process" => ~active_response.robot
    /\ \A k \in 1..Len(log) :
          log[k].ev = "parse" => log[k].url \notin site_blocked

\* C30: the exported views agree: both endpoints of every tuple of
\* generate_edge_list are node ids of tuples of generate_node_attrs.
C30_EdgeEndpointsAreNodes ==
    \A e \in generate_edge_list(edges, heap) :
        /\ e[1] \in generate_node_attrs(nodes, heap)
        /\ e[2] \in generate_node_attrs(nodes, heap)

\* AuthorGraph(): the nodes and the edges of a fresh graph.  A graph here
\* is a record of the attributes the object holds; egdes is the attribute
\* that copy sets.
AuthorGraph == [nodes |-> << >>, edges |-> << >>, egdes |-> << >>]

\* dict.update of self.nodes: a key the dict already has keeps its key
\* object and takes the value of other, a new key comes with its value
nodes_update(d, o) ==
    [k \in DOMAIN d \cup DOMAIN o |->
        IF k \in DOMAIN d /\ k \in DOMAIN o
        THEN [node |-> d[k].node, docs |-> o[k].docs]
        ELSE IF k \in DOMAIN o THEN o[k] ELSE d[k]]

\* dict.update of self.edges: the same, the value being the authors list
edges_update(d, o) ==
    [k \in DOMAIN d \cup DOMAIN o |->
        IF k \in DOMAIN d /\ k \in DOMAIN o
        THEN [d[k] EXCEPT !.authors = o[k].authors]
        ELSE IF k \in DOMAIN o THEN o[k] ELSE d[k]]

\* AuthorGraph.copy: the copy of self.edges is stored as ag.egdes, and
\* ag.edges stays the empty dict of the constructor
copy(self) ==
    [AuthorGraph EXCEPT !.nodes = self.nodes, !.egdes = self.edges]

\* AuthorGraph.__add__
__add__(self, other) ==
    LET ag == copy(self)
    IN  [ag EXCEPT !.nodes = nodes_update(ag.nodes, other.nodes),
                   !.edges = edges_update(ag.edges, other.edges)]

\* the graph of the crawler, as an AuthorGraph object
CrawlGraph == [AuthorGraph EXCEPT !.nodes = nodes, !.edges = edges]

\* C32: copy() of the crawler's graph has the nodes and the edges of the
\* graph, and the sum of the graph with a fresh graph or with itself holds
\* every node and every edge of both operands.
C32_CopyAndAddKeepNodesAndEdges ==
    /\ copy(CrawlGraph).nodes = CrawlGraph.nodes
    /\ copy(CrawlGraph).edges = CrawlGraph.edges
    /\ \A b \in {AuthorGraph, CrawlGraph} :
          /\ DOMAIN CrawlGraph.nodes \cup DOMAIN b.nodes
                \subseteq DOMAIN __add__(CrawlGraph, b).nodes
          /\ DOMAIN CrawlGraph.edges \cup DOMAIN b.edges
                \subseteq DOMAIN __add__(CrawlGraph, b).edges

----------------------------------------------------------------------------
(* Specification MergeSpec: Author.merge on pairs of Author objects        *)

JohnDoe == <<"J", "o", "h", "n", " ", "D", "o", "e">>
EDoe == <<"É", " ", "D", "o", "e">>

\* An externally issued id that starts with the lowest character such ids
\* are made of (letters, digits, '-' and '_').
IdDash == <<"-", "A">>

IdAB == <<"A", "|", "B">>

\* Author(name, author_id, parent_id) for the names, ids and parent ids of
\* the model; without an author_id the object gets the random id fresh.
MergeInputs(fresh) ==
    {Author(n, k, p, fresh).obj :
        n \in {JaneDoe, JohnDoe, JDoe, JohnQReed, EDoe},
        k \in {IdA, IdB, IdDash, None},
        p \in {None, IdA, IdAB}}

Merged(r) == [called |-> TRUE, err |-> r.err, obj |-> r.obj]

\* a.merge(b)
MergeAB ==
    /\ ~m_ab.called
    /\ m_ab' = Merged(merge(m_a, m_b))
    /\ UNCHANGED <<m_a, m_b, m_ba, m_aa, m_abb, m_upd>>
    /\ UNCHANGED <<docVars, graphVars, crawlVars, poolVars>>

\* b.merge(a)
MergeBA ==
    /\ ~m_ba.called
    /\ m_ba' = Merged(merge(m_b, m_a))
    /\ UNCHANGED <<m_a, m_b, m_ab, m_aa, m_abb, m_upd>>
    /\ UNCHANGED <<docVars, graphVars, crawlVars, poolVars>>

\* a.merge(a)
MergeAA ==
    /\ ~m_aa.called
    /\ m_aa' = Merged(merge(m_a, m_a))
    /\ UNCHANGED <<m_a, m_b, m_ab, m_ba, m_abb, m_upd>>
    /\ UNCHANGED <<docVars, graphVars, crawlVars, poolVars>>

\* a.merge(b).merge(b)
MergeABB ==
    /\ m_ab.called
    /\ m_ab.err = ""
    /\ ~m_abb.called
    /\ m_abb' = Merged(merge(m_ab.obj, m_b))
    /\ UNCHANGED <<m_a, m_b, m_ab, m_ba, m_aa, m_upd>>
    /\ UNCHANGED <<docVars, graphVars, crawlVars, poolVars>>

MergeInit ==
    /\ m_a \in MergeInputs(RandomId(1))
    /\ m_b \in MergeInputs(RandomId(2))
    /\ m_ab = NotMerged
    /\ m_ba = NotMerged
    /\ m_aa = NotMerged
    /\ m_abb = NotMerged
    /\ m_upd = NotUpdated
    /\ d_fields = DocArgs("", IdA, << >>)
    /\ d_result = NotCalled
    /\ d_again = NotCalled
    /\ d_other = NoOther
    /\ author_ids = << >>
    /\ authors = << >>
    /\ documents = << >>
    /\ rnd = 0
    /\ g_last = [op |-> "", err |-> "",
                 a_dict |-> [name |-> NoChars, author_id |-> None],
                 d_dict |-> DocArgs("", None, << >>)]
    /\ max_hops = 1
    /\ max_author_search_page = 3
    /\ request_queue = << >>
    /\ active_request = << >>
    /\ active_response = << >>
    /\ heap = << >>
    /\ nodes = << >>
    /\ edges = << >>
    /\ n_random = 0
    /\ pc = "idle"
    /\ err = ""
    /\ steps = 0
    /\ crawl_i = 1
    /\ url_list = << >>
    /\ url_ix = 0
    /\ site_down = {}
    /\ site_blocked = {}
    /\ searches = 0
    /\ log = << >>
    /\ q_pool_size = 5
    /\ q_futures = << >>
    /\ q_workers = << >>
    /\ q_pc = "idle"
    /\ q_req = 0
    /\ q_k = 0
    /\ q_scan = << >>
    /\ q_ix = 0
    /\ q_count = 0
    /\ q_completed = << >>
    /\ q_status = << >>
    /\ q_delivered = << >>
    /\ q_err = ""

\* a.update_to(b): what a and b are after the call
UpdateAB ==
    /\ ~m_upd.called
    /\ \E r \in {update_to(m_a, m_b)} :
          m_upd' = [called |-> TRUE, err |-> r.err, self |-> r.obj,
                    other |-> m_b]
    /\ UNCHANGED <<m_a, m_b, m_ab, m_ba, m_aa, m_abb>>
    /\ UNCHANGED <<docVars, graphVars, crawlVars, poolVars>>

MergeNext == MergeAB \/ MergeBA \/ MergeAA \/ MergeABB \/ UpdateAB

MergeSpec == MergeInit /\ [][MergeNext]_vars

----------------------------------------------------------------------------
(* Claims about Author.merge (specification MergeSpec)                     *)

\* The name, author id and parent ids of an Author
Identity(a) ==
    [name |-> a.name, author_id |-> a.author_id, parent_id |-> a.parent_id]

\* C11: merge is commutative: for two Authors with the same match key,
\* a.merge(b) and b.merge(a) have the same name, author id and parent ids.
C11_MergeCommutes ==
    (m_ab.called /\ m_ba.called /\ m_a.filn = m_b.filn)
        => /\ m_ab.err = "" /\ m_ba.err = ""
           /\ Identity(m_ab.obj) = Identity(m_ba.obj)

\* C12: merge is idempotent: a.merge(a) has the name, author id and parent
\* ids of a, and a.merge(b).merge(b) is the same record as a.merge(b).
C12_MergeIdempotent ==
    /\ m_aa.called =>
           m_aa.err = "" /\ Identity(m_aa.obj) = Identity(m_a)
    /\ (m_abb.called /\ m_a.filn = m_b.filn) =>
           m_abb.err = "" /\ Identity(m_abb.obj) = Identity(m_ab.obj)

IsPlaceholder(id) == id[1] = "#"

\* C13: merging an Author with a placeholder id and an Author with an
\* externally issued id gives the externally issued id in either argument
\* order, and merging two Authors with externally issued ids gives the same
\* id in either order.
C13_ExternalIdSurvives ==
    /\ (m_ab.called /\ m_ab.err = "") =>
          /\ (IsPlaceholder(m_a.author_id) /\ ~IsPlaceholder(m_b.author_id))
                 => m_ab.obj.author_id = m_b.author_id
          /\ (~IsPlaceholder(m_a.author_id) /\ IsPlaceholder(m_b.author_id))
                 => m_ab.obj.author_id = m_a.author_id
    /\ (m_ba.called /\ m_ba.err = "") =>
          /\ (IsPlaceholder(m_a.author_id) /\ ~IsPlaceholder(m_b.author_id))
                 => m_ba.obj.author_id = m_b.author_id
          /\ (~IsPlaceholder(m_a.author_id) /\ IsPlaceholder(m_b.author_id))
                 => m_ba.obj.author_id = m_a.author_id
    /\ (/\ m_ab.called /\ m_ab.err = "" /\ m_ba.called /\ m_ba.err = ""
        /\ ~IsPlaceholder(m_a.author_id) /\ ~IsPlaceholder(m_b.author_id))
          => /\ m_ab.obj.author_id = m_ba.obj.author_id
             /\ m_ab.obj.author_id \in {m_a.author_id, m_b.author_id}

\* a has a placeholder id, b the externally issued id that starts with '-',
\* and both merges were made and gave the id of b.
C13_Witness ==
    /\ IsPlaceholder(m_a.author_id)
    /\ m_b.author_id = IdDash
    /\ m_ab.called /\ m_ab.err = ""
    /\ m_ba.called /\ m_ba.err = ""
    /\ m_ab.obj.author_id = IdDash
    /\ m_ba.obj.author_id = IdDash

\* C23: merge and update_to of two Authors with different match keys fail
\* with ValueError and leave both as they were; with equal match keys
\* update_to gives the first the name, author id and parent id of the
\* second and leaves the second as it was.
C23_MismatchFailsUpdateMirrors ==
    [][/\ m_a' = m_a /\ m_b' = m_b
       /\ (m_ab'.called /\ m_a.filn # m_b.filn) => m_ab'.err = "ValueError"
       /\ (m_ba'.called /\ m_a.filn # m_b.filn) => m_ba'.err = "ValueError"
       /\ m_upd'.called =>
             /\ m_upd'.other = m_b
             /\ IF m_a.filn # m_b.filn
                THEN m_upd'.err = "ValueError" /\ m_upd'.self = m_a
                ELSE /\ m_upd'.err = ""
                     /\ Identity(m_upd'.self) = Identity(m_b)
                     /\ m_upd'.self.filn = m_a.filn]_vars

\* C23 witness: Jane Doe and John Q Reed, of different match keys: merge
\* and update_to were called and failed.
C23_Witness ==
    /\ m_a.name = JaneDoe /\ m_b.name = JohnQReed
    /\ m_ab.called /\ m_ab.err = "ValueError"
    /\ m_upd.called /\ m_upd.err = "ValueError"

\* The set of ids in a '|'-joined parent id
ParentIdSet(pid) == ToSet(Split(pid, "|"))

\* The parent ids of the merge r of self and other are as C24 says
ParentsMerged(r, self, other) ==
    (r.called /\ r.err = "") =>
        IF self.parent_id = None \/ other.parent_id = None
        THEN r.obj.parent_id = None
        ELSE /\ r.obj.parent_id # None
             /\ ParentIdSet(r.obj.parent_id)
                    = ParentIdSet(self.parent_id) \cup ParentIdSet(other.parent_id)

\* C24: the parent ids of a merge are None when the parent ids of either
\* side are None; otherwise the set of the merged parent ids is the union
\* of the two sides' sets.
C24_ParentIdsUnionOrUnknown ==
    /\ ParentsMerged(m_ab, m_a, m_b)
    /\ ParentsMerged(m_ba, m_b, m_a)
    /\ ParentsMerged(m_aa, m_a, m_a)

\* C24 witness: a with parent A and b with parents A and B were merged, in
\* both orders, and the merge has the parents A and B.
C24_Witness ==
    /\ m_a.parent_id = IdA /\ m_b.parent_id = IdAB
    /\ m_ab.called /\ m_ab.err = ""
    /\ m_ba.called /\ m_ba.err = ""
    /\ ParentIdSet(m_ab.obj.parent_id) = {IdA, IdB}

----------------------------------------------------------------------------
(* requests.py: RequestQueue.  Specification PoolSpec: one thread calls    *)
(* add_request, status and retrieve_completed while the threads of the     *)
(* pool run the submitted fetches.                                         *)

\* The largest pool, the most requests added and the most URLs of a request.
MaxPool == 2
MaxRequests == 2
MaxUrls == 2

\* thread_pool.submit(delayed, pr, 'GET', url, ...) for URL k of request req:
\* a new future
Future(req, k) ==
    [req |-> req, url |-> k, state |-> "PENDING", outcome |-> "",
     registered |-> FALSE, popped |-> FALSE]

\* The keys of self.futures, in the order they were inserted
Keys ==
    SelectSeq([i \in 1..Len(q_futures) |-> i],
              LAMBDA i : q_futures[i].registered /\ ~q_futures[i].popped)

NoStatus == [called |-> FALSE, RUNNING |-> 0, FREE |-> 0]

\* add_request(req), up to its first submit; req has n URLs
AddRequest ==
    /\ q_pc = "idle"
    /\ q_req.id < MaxRequests
    /\ \E n \in 1..MaxUrls : q_req' = [id |-> q_req.id + 1, n |-> n]
    /\ q_k' = 0
    /\ q_pc' = "submit"
    /\ UNCHANGED <<q_pool_size, q_futures, q_workers, q_scan, q_ix, q_count,
                   q_completed, q_status, q_delivered, q_err>>
    /\ UNCHANGED <<docVars, graphVars, crawlVars, mergeVars>>

\* add_request, line 425: f = self.thread_pool.submit(...)
Submit ==
    /\ q_pc = "submit"
    /\ q_futures' = Append(q_futures, Future(q_req.id, q_k + 1))
    /\ q_pc' = "register"
    /\ UNCHANGED <<q_pool_size, q_workers, q_req, q_k, q_scan, q_ix, q_count,
                   q_completed, q_status, q_delivered, q_err>>
    /\ UNCHANGED <<docVars, graphVars, crawlVars, mergeVars>>

\* add_request, line 427: self.futures[f] = req, and the next URL
Register ==
    /\ q_pc = "register"
    /\ q_futures' = [q_futures EXCEPT ![Len(q_futures)].registered = TRUE]
    /\ q_k' = q_k + 1
    /\ q_pc' = IF q_k + 1 = q_req.n THEN "idle" ELSE "submit"
    /\ UNCHANGED <<q_pool_size, q_workers, q_req, q_scan, q_ix, q_count,
                   q_completed, q_status, q_delivered, q_err>>
    /\ UNCHANGED <<docVars, graphVars, crawlVars, mergeVars>>

\* A thread of the pool takes the oldest work item: its future is RUNNING
Start ==
    /\ \E w \in DOMAIN q_workers :
        /\ q_workers[w] = 0
        /\ \E i \in 1..Len(q_futures) :
            /\ q_futures[i].state = "PENDING"
            /\ \A j \in 1..(i - 1) : q_futures[j].state # "PENDING"
            /\ q_futures' = [q_futures EXCEPT ![i].state = "RUNNING"]
            /\ q_workers' = [q_workers EXCEPT ![w] = i]
    /\ UNCHANGED <<q_pool_size, q_pc, q_req, q_k, q_scan, q_ix, q_count,
                   q_completed, q_status, q_delivered, q_err>>
    /\ UNCHANGED <<docVars, graphVars, crawlVars, mergeVars>>

\* The fetch of a thread returns or raises: its future is FINISHED
Finish ==
    /\ \E w \in DOMAIN q_workers :
        /\ q_workers[w] # 0
        /\ \E o \in {"ok", "fail"} :
              q_futures' = [q_futures EXCEPT ![q_workers[w]].state = "FINISHED",
                                             ![q_workers[w]].outcome = o]
        /\ q_workers' = [q_workers EXCEPT ![w] = 0]
    /\ UNCHANGED <<q_pool_size, q_pc, q_req, q_k, q_scan, q_ix, q_count,
                   q_completed, q_status, q_delivered, q_err>>
    /\ UNCHANGED <<docVars, graphVars, crawlVars, mergeVars>>

\* status, line 436: the iteration over self.futures begins
StatusBegin ==
    /\ q_pc = "idle"
    /\ q_pc' = "status"
    /\ q_scan' = Keys
    /\ q_ix' = 0
    /\ q_count' = 0
    /\ UNCHANGED <<q_pool_size, q_futures, q_workers, q_req, q_k,
                   q_completed, q_status, q_delivered, q_err>>
    /\ UNCHANGED <<docVars, graphVars, crawlVars, mergeVars>>

\* status, line 436: f._state of the next future is read and counted
StatusRead ==
    /\ q_pc = "status"
    /\ q_ix < Len(q_scan)
    /\ q_ix' = q_ix + 1
    /\ q_count' = IF q_futures[q_scan[q_ix + 1]].state = "RUNNING"
                  THEN q_count + 1 ELSE q_count
    /\ UNCHANGED <<q_pool_size, q_futures, q_workers, q_pc, q_req, q_k,
                   q_scan, q_completed, q_status, q_delivered, q_err>>
    /\ UNCHANGED <<docVars, graphVars, crawlVars, mergeVars>>

\* status, lines 437-438: FREE is computed and the counts are returned
StatusEnd ==
    /\ q_pc = "status"
    /\ q_ix = Len(q_scan)
    /\ q_status' = [called |-> TRUE, RUNNING |-> q_count,
                    FREE |-> q_pool_size - q_count]
    /\ q_pc' = "idle"
    /\ q_scan' = << >>
    /\ q_ix' = 0
    /\ q_count' = 0
    /\ UNCHANGED <<q_pool_size, q_futures, q_workers, q_req, q_k,
                   q_completed, q_delivered, q_err>>
    /\ UNCHANGED <<docVars, graphVars, crawlVars, mergeVars>>

\* retrieve_completed, line 431: the iteration over self.futures begins
RetrieveBegin ==
    /\ q_pc = "idle"
    /\ q_pc' = "retrieve"
    /\ q_scan' = Keys
    /\ q_ix' = 0
    /\ q_completed' = << >>
    /\ q_err' = ""
    /\ UNCHANGED <<q_pool_size, q_futures, q_workers, q_req, q_k, q_count,
                   q_status, q_delivered>>
    /\ UNCHANGED <<docVars, graphVars, crawlVars, mergeVars>>

\* retrieve_completed, line 431: f.done() of the next future
RetrieveScan ==
    /\ q_pc = "retrieve"
    /\ q_ix < Len(q_scan)
    /\ q_ix' = q_ix + 1
    /\ q_completed' = IF q_futures[q_scan[q_ix + 1]].state = "FINISHED"
                      THEN Append(q_completed, q_scan[q_ix + 1])
                      ELSE q_completed
    /\ UNCHANGED <<q_pool_size, q_futures, q_workers, q_pc, q_req, q_k,
                   q_scan, q_count, q_status, q_delivered, q_err>>
    /\ UNCHANGED <<docVars, graphVars, crawlVars, mergeVars>>

\* The position in completed of the first future whose fetch raised, 0 when
\* there is none
FirstFailed(completed) ==
    IF \E k \in 1..Len(completed) : q_futures[completed[k]].outcome = "fail"
    THEN CHOOSE k \in 1..Len(completed) :
            /\ q_futures[completed[k]].outcome = "fail"
            /\ \A j \in 1..(k - 1) : q_futures[completed[j]].outcome # "fail"
    ELSE 0

\* retrieve_completed, line 432: for each completed future,
\* html_from_future(f), which raises what the fetch raised, and then
\* self.futures.pop(f); the list is returned when nothing was raised
RetrieveDeliver ==
    /\ q_pc = "retrieve"
    /\ q_ix = Len(q_scan)
    /\ LET failed == FirstFailed(q_completed)
           taken == IF failed = 0 THEN ToSet(q_completed)
                    ELSE {q_completed[k] : k \in 1..(failed - 1)}
       IN  /\ q_futures' = [i \in 1..Len(q_futures) |->
                               IF i \in taken
                               THEN [q_futures[i] EXCEPT !.popped = TRUE]
                               ELSE q_futures[i]]
           /\ q_err' = IF failed = 0 THEN "" ELSE "FetchError"
           /\ q_delivered' =
                  IF failed = 0
                  THEN q_delivered \o [k \in 1..Len(q_completed) |->
                           [future |-> q_completed[k],
                            req |-> q_futures[q_completed[k]].req]]
                  ELSE q_delivered
    /\ q_pc' = "idle"
    /\ q_scan' = << >>
    /\ q_ix' = 0
    /\ q_completed' = << >>
    /\ UNCHANGED <<q_pool_size, q_workers, q_req, q_k, q_count, q_status>>
    /\ UNCHANGED <<docVars, graphVars, crawlVars, mergeVars>>

\* RequestQueue(pool_size)
PoolInit ==
    /\ q_pool_size \in 1..MaxPool
    /\ q_futures = << >>
    /\ q_workers = [w \in 1..q_pool_size |-> 0]
    /\ q_pc = "idle"
    /\ q_req = [id |-> 0, n |-> 0]
    /\ q_k = 0
    /\ q_scan = << >>
    /\ q_ix = 0
    /\ q_count = 0
    /\ q_completed = << >>
    /\ q_status = NoStatus
    /\ q_delivered = << >>
    /\ q_err = ""
    /\ m_a = None
    /\ m_b = None
    /\ m_ab = NotMerged
    /\ m_ba = NotMerged
    /\ m_aa = NotMerged
    /\ m_abb = NotMerged
    /\ m_upd = NotUpdated
    /\ d_fields = DocArgs("", IdA, << >>)
    /\ d_result = NotCalled
    /\ d_again = NotCalled
    /\ d_other = NoOther
    /\ author_ids = << >>
    /\ authors = << >>
    /\ documents = << >>
    /\ rnd = 0
    /\ g_last = [op |-> "", err |-> "",
                 a_dict |-> [name |-> NoChars, author_id |-> None],
                 d_dict |-> DocArgs("", None, << >>)]
    /\ max_hops = 1
    /\ max_author_search_page = 3
    /\ request_queue = << >>
    /\ active_request = << >>
    /\ active_response = << >>
    /\ heap = << >>
    /\ nodes = << >>
    /\ edges = << >>
    /\ n_random = 0
    /\ pc = "idle"
    /\ err = ""
    /\ steps = 0
    /\ crawl_i = 1
    /\ url_list = << >>
    /\ url_ix = 0
    /\ site_down = {}
    /\ site_blocked = {}
    /\ searches = 0
    /\ log = << >>

PoolNext ==
    \/ AddRequest \/ Submit \/ Register \/ Start \/ Finish
    \/ StatusBegin \/ StatusRead \/ StatusEnd
    \/ RetrieveBegin \/ RetrieveScan \/ RetrieveDeliver

PoolSpec == PoolInit /\ [][PoolNext]_vars

----------------------------------------------------------------------------
(* Claims about RequestQueue (specification PoolSpec)                      *)

Running == {i \in 1..Len(q_futures) : q_futures[i].state = "RUNNING"}

\* C16: at every moment at most pool_size fetches are running, and every
\* reading of status reports at most pool_size RUNNING fetches and a FREE
\* count between 0 and pool_size.
C16_StatusWithinPool ==
    /\ Cardinality(Running) <= q_pool_size
    /\ q_status.called =>
          /\ q_status.RUNNING <= q_pool_size
          /\ q_status.FREE \in 0..q_pool_size

\* C17: the URLs of one request are never fetched in parallel: no two
\* running fetches belong to the same request.
C17_OneRequestIsSequential ==
    \A i, j \in Running : i # j => q_futures[i].req # q_futures[j].req

\* C31: every fetch that completed successfully is delivered exactly once
\* by retrieve_completed, with the request it was submitted for: no future
\* is delivered twice, none with another request, and a successful future
\* that was taken out of self.futures has been delivered.
C31_SuccessDeliveredExactlyOnce ==
    \A i \in 1..Len(q_futures) :
        LET deliveries == {k \in 1..Len(q_delivered) : q_delivered[k].future = i}
        IN  /\ Cardinality(deliveries) <= 1
            /\ \A k \in deliveries : q_delivered[k].req = q_futures[i].req
            /\ (q_futures[i].popped /\ q_futures[i].outcome = "ok")
                  => deliveries # {}

====
